---------------------------- MODULE Spec2Model ----------------------------
(***************************************************************************)
(* Room / round state machine of the answer-guessing game server           *)
(* (src/src/server/routers/game.ts, first router of the file, and the      *)
(* schema of src/unnamed/part_003 and src/unnamed/part_005).               *)
(*                                                                         *)
(* Every handler is an async function: it can be suspended at each await   *)
(* of a database statement, and other handlers run in between.  A handler  *)
(* is therefore a sequence of steps, one per database statement (reads     *)
(* that cannot be told apart from one read are taken together, as noted at *)
(* each action); the calls that are suspended are kept in the bag `calls`. *)
(***************************************************************************)
EXTENDS Integers, Sequences, FiniteSets, Bags, TLC

\* ----------------------------------------------------------------- bounds
NumPlayers == 2        \* players of the room of the round engine
MaxCalls == 2          \* handler calls suspended at an await at one time
MaxRatingRuns == 2     \* rating runs of the round of SpecRound
MaxRoomRatingRuns == 1 \* rating runs in the life of the room of Spec
MaxAnswerRows == 2     \* rows of table answers
MaxGuessRows == 3      \* rows of table guesses
MaxIds == 4            \* player ids getGuessTarget is tried on
MaxRoomSize == 3       \* players of a room getGuessTarget is tried on
NumSessions == 2       \* sessions that call create and join
MaxRooms == 2          \* rows of table rooms in SpecRooms
MaxPlayerRows == 3     \* rows of table players in SpecRooms
MaxEvents == 4         \* roomUpdate events of create and join

\* ------------------------------------------------------ program constants
MinTotalRounds == 1
MaxTotalRounds == 10
DefaultTotalRounds == 3
DefaultRoundTimeLimit == 120
MinRoundTimeLimit == 30
MaxRoundTimeLimit == 600
FallbackRating == 5
MinRating == 1
MaxRating == 10
MinPlayersForTarget == 2
MaxAttempts == 10

Null == 0

VARIABLES
    room,          \* the row of table rooms
    totalScore,    \* players.total_score, by player id
    isReady,       \* players.is_ready_for_next_round, by player id
    games,         \* table games: round number -> status ("none": no row)
    answers,       \* table answers, rows in insertion order
    guesses,       \* table guesses, rows in insertion order
    calls,         \* bag of the handler calls suspended at an await
    ratingRuns,    \* history: round -> number of startAIRating runs started
    endedAt,       \* games.ended_at: round -> whether it is set
    gameRows,      \* table games: round -> the questions of the rows of it
    roomRows,      \* table rooms as create fills it, rows in insertion order
    playerRows,    \* table players as create and join fill it
    events,        \* number of roomUpdate events create and join emitted
    thrown,        \* history: the errors create and join have thrown
    tPlayers,      \* getGuessTarget: the player rows the select returns
    tRound,        \* getGuessTarget: games.round of the game
    tCaller,       \* getGuessTarget: input.playerId
    tResult,       \* getGuessTarget: what the last query returned
    tShown,        \* getPlayerActivity: the target the client computed
    results,       \* getGameResults: what the last query returned
    gameFeed,      \* a subscriber of onGameUpdate and its first item
    roomFeed       \* a subscriber of onRoomUpdate and its first item

vars == <<room, totalScore, isReady, games, answers, guesses, calls,
          ratingRuns, endedAt, gameRows, roomRows, playerRows, events, thrown,
          tPlayers, tRound, tCaller, tResult, tShown, results,
          gameFeed, roomFeed>>

engineVars == <<room, totalScore, isReady, games, answers, guesses, calls,
                ratingRuns, endedAt, gameRows>>
targetVars == <<tPlayers, tRound, tCaller, tResult, tShown, results>>
directoryVars == <<roomRows, playerRows, events, thrown>>
feedVars == <<gameFeed, roomFeed>>

\* ================================================================ helpers
Range(s) == {s[i] : i \in 1..Len(s)}

RECURSIVE SumSeq(_)
SumSeq(s) == IF s = <<>> THEN 0 ELSE Head(s) + SumSeq(Tail(s))

\* Array.prototype.findIndex, 1-based; 0 stands for -1.
RECURSIVE FindIndexFrom(_, _, _)
FindIndexFrom(s, x, i) ==
    IF i > Len(s) THEN 0
    ELSE IF s[i] = x THEN i
    ELSE FindIndexFrom(s, x, i + 1)

FindIndex(s, x) == FindIndexFrom(s, x, 1)

\* ========================================================= getGuessTarget
\* Insert x into the sorted sequence s, before the first larger element.
RECURSIVE InsertSorted(_, _)
InsertSorted(s, x) ==
    IF s = <<>> THEN <<x>>
    ELSE IF x <= Head(s) THEN <<x>> \o s
    ELSE <<Head(s)>> \o InsertSorted(Tail(s), x)

RECURSIVE SortById(_)

\* No sort: the rows in the order the select returned them.
SortByIdUnsorted(s) == s

\* roomPlayers.sort((a, b) => a.id.localeCompare(b.id)): ids are compared as
\* a total order, here the order of the naturals that stand for them.
SortById(s) ==
    IF s = <<>> THEN <<>> ELSE InsertSorted(SortById(Tail(s)), Head(s))

\* A rotation that keeps offset 0: no "use next player instead".
FinalTargetIndexNoSkip(targetIndex, currentPlayerIndex, n) == targetIndex

\* The own index is replaced by the first player, not by the next one.
FinalTargetIndexFirst(targetIndex, currentPlayerIndex, n) ==
    IF targetIndex = currentPlayerIndex THEN 0 ELSE targetIndex

\* game.ts 463-465, on 0-based indices.
FinalTargetIndex(targetIndex, currentPlayerIndex, n) ==
    IF targetIndex = currentPlayerIndex
    THEN (currentPlayerIndex + 1) % n
    ELSE targetIndex

\* game.ts 459
TargetOffset(round, n) == round % n

\* getGuessTarget after its game lookup: roomPlayers are the ids of the
\* rows of the room in the order the select returns them; the result is
\* the id of the target, or Null.
GetGuessTarget(roomPlayers, round, playerId) ==
    IF Len(roomPlayers) < MinPlayersForTarget THEN Null
    ELSE LET sortedPlayers == SortById(roomPlayers)
             n == Len(sortedPlayers)
             currentPlayerIndex == FindIndex(sortedPlayers, playerId) - 1
         IN IF currentPlayerIndex = -1 THEN Null
            ELSE LET offset == TargetOffset(round, n)
                     targetIndex == (currentPlayerIndex + offset) % n
                     finalTargetIndex ==
                         FinalTargetIndex(targetIndex, currentPlayerIndex, n)
                 IN sortedPlayers[finalTargetIndex + 1]

\* ============================================================ the tables
Players == 1..NumPlayers               \* ids of the player rows of the room
Outsider == NumPlayers + 1             \* an id that is no player of the room
Callers == Players \cup {Outsider}
Rounds == 1..MaxTotalRounds            \* a game's id is its round number:
                                       \* games_room_id_round_unique
DefaultInitialPrompt == "Intriguing Hypothetical Scenarios"
JudgeValues == {8}                     \* the numbers the judge answers with

\* What the judge call of rateGuess does (ai.ts 133-170): it answers with a
\* number, or it fails or runs into the timeout of 30 s.
Judged(v) == [ok |-> TRUE, value |-> v]
JudgeFailure == [ok |-> FALSE, value |-> 0]
JudgeOutcomes == {Judged(v) : v \in JudgeValues} \cup {JudgeFailure}

\* A rateGuess without its catch block's default.
RateGuessNoDefault(out) ==
    IF out.value > MaxRating THEN MaxRating
    ELSE IF out.value < MinRating THEN MinRating
    ELSE out.value

\* ai.ts 170-177: what rateGuess returns: the judge's number brought into
\* 1..10, and 5 when the judge failed or timed out.
RateGuess(out) ==
    IF ~out.ok THEN FallbackRating
    ELSE IF out.value > MaxRating THEN MaxRating
    ELSE IF out.value < MinRating THEN MinRating
    ELSE out.value

\* What updateConfig is called with (zod: 1..10, 30..600, 1..200 chars).
ConfigInputs ==
    [totalRounds : {MinTotalRounds},
     roundTimeLimit : {MinRoundTimeLimit},
     initialPrompt : {"custom"}]

LobbyConfigInputs ==
    [totalRounds : {MinTotalRounds, MinTotalRounds + 1},
     roundTimeLimit : {MinRoundTimeLimit, MaxRoundTimeLimit},
     initialPrompt : {"custom"}]

\* What generateQuestion returns (ai.ts 5-32); Null: it throws.
Questions == {1}
LobbyQuestions == {1, 2, Null}

\* A text is the sequence of its characters.  String.prototype.trim, which
\* saveAnswer and saveGuess apply to the text they store (game.ts 300, 311,
\* 365, 377): the text without its leading and trailing white space.
RECURSIVE TrimStart(_)
TrimStart(s) ==
    IF s # <<>> /\ Head(s) = " " THEN TrimStart(Tail(s)) ELSE s

RECURSIVE TrimEnd(_)
TrimEnd(s) ==
    IF s # <<>> /\ s[Len(s)] = " " THEN TrimEnd(SubSeq(s, 1, Len(s) - 1)) ELSE s

Trim(s) == TrimEnd(TrimStart(s))

NoConfig == [totalRounds |-> 0, roundTimeLimit |-> 0, initialPrompt |-> ""]

\* A suspended call: the handler, the await it is suspended at, its input
\* and the locals it has read so far.
Call(op, pc, gameId, playerId) ==
    [op |-> op, pc |-> pc, gameId |-> gameId, playerId |-> playerId,
     targetId |-> Null, submit |-> FALSE, existing |-> 0,
     existingSub |-> FALSE, pending |-> {}, round |-> 0, cfg |-> NoConfig,
     code |-> Null, attempts |-> 0, sessionId |-> Null, roomId |-> Null,
     text |-> <<>>, kickerId |-> Null, isCreator |-> FALSE,
     hasPlayedRounds |-> FALSE]

InFlight == BagToSet(calls)
NumCalls == BagCardinality(calls)
Suspend(c) == calls (+) SetToBag({c})
Finish(c) == calls (-) SetToBag({c})
Resume(c, d) == (calls (-) SetToBag({c})) (+) SetToBag({d})
NumInFlight(op) ==
    BagCardinality([c \in {d \in InFlight : d.op = op} |-> calls[c]])

\* select ... where gameId and playerId ... limit(1): index of the first row
FirstAnswer(g, p) ==
    LET hits == {i \in 1..Len(answers) :
                    answers[i].gameId = g /\ answers[i].playerId = p}
    IN IF hits = {} THEN 0 ELSE CHOOSE i \in hits : \A j \in hits : i <= j

FirstGuess(g, p, t) ==
    LET hits == {i \in 1..Len(guesses) :
                    /\ guesses[i].gameId = g
                    /\ guesses[i].guesserId = p
                    /\ guesses[i].targetPlayerId = t}
    IN IF hits = {} THEN 0 ELSE CHOOSE i \in hits : \A j \in hits : i <= j

GameGuesses(g) == {i \in 1..Len(guesses) : guesses[i].gameId = g}
SubmittedAnswers(g) ==
    {i \in 1..Len(answers) : answers[i].gameId = g /\ answers[i].isSubmitted}
SubmittedGuesses(g) ==
    {i \in 1..Len(guesses) : guesses[i].gameId = g /\ guesses[i].isSubmitted}

\* select from players where roomId = ...: the rows in the order of the
\* table, which is the order they were inserted in
RoomPlayers(r) == SelectSeq(playerRows, LAMBDA row : row.roomId = r)

\* game.ts 401, roomPlayers.length in checkGameProgress: the number of
\* player rows of the room of the engine.  A schedule in which nobody
\* joins or leaves keeps no rows of table players: its room has the
\* players 1..NumPlayers.
NumRoomPlayers ==
    IF playerRows = <<>> THEN NumPlayers ELSE Len(RoomPlayers(1))

\* ========================================================= the subscribers
\* One client of onGameUpdate for the room of the engine and one client of
\* onRoomUpdate for a room of roomRows.  Of what they are sent, the first item
\* is kept.
NoItem == [kind |-> "none"]

NoSubscribers ==
    /\ gameFeed = [listening |-> FALSE, first |-> NoItem]
    /\ roomFeed = [pc |-> "none", roomId |-> Null, room |-> NoItem,
                   first |-> NoItem]

\* game.ts 8-13, emitGameUpdateWithGuesses(roomId, game): select the guesses
\* and the answers of the game and emit gameUpdate; game.ts 597-603: the
\* listener of a subscriber yields the event.  The selects are taken with
\* the write that precedes them.
EmitGameUpdate(g, status) ==
    gameFeed' =
        IF gameFeed.listening /\ gameFeed.first = NoItem
        THEN [gameFeed EXCEPT !.first =
                [kind |-> "event", gameId |-> g, status |-> status,
                 guesses |-> SelectSeq(guesses', LAMBDA row : row.gameId = g),
                 answers |-> SelectSeq(answers', LAMBDA row : row.gameId = g)]]
        ELSE gameFeed

\* room.ts 54, 91, 105, 276, 317 and game.ts 198: the players of the room
\* are selected after the write and roomUpdate is emitted; room.ts 336-342:
\* the listener of a subscriber of that room yields the event.
EmitRoomUpdate(r) ==
    /\ events' = events + 1
    /\ roomFeed' =
        IF roomFeed.pc = "listening" /\ roomFeed.roomId = r
                /\ roomFeed.first = NoItem
        THEN [roomFeed EXCEPT !.first =
                [kind |-> "event", players |-> RoomPlayers(r)']]
        ELSE roomFeed

NoRoomUpdate == UNCHANGED <<events, roomFeed>>

\* game.ts 595-599: onGameUpdate attaches its listener; nothing is yielded
\* until an event arrives
OnGameUpdateSubscribe ==
    /\ ~gameFeed.listening
    /\ gameFeed' = [gameFeed EXCEPT !.listening = TRUE]
    /\ UNCHANGED <<engineVars, targetVars, directoryVars, roomFeed>>

\* room.ts 329-330: onRoomUpdate selects the room
OnRoomUpdateSubscribe(r) ==
    /\ roomFeed.pc = "none"
    /\ roomFeed' =
        IF r \in 1..Len(roomRows) /\ roomRows[r].status # "deleted"
        THEN [roomFeed EXCEPT !.roomId = r, !.pc = "players",
                              !.room = roomRows[r]]
        ELSE [roomFeed EXCEPT !.roomId = r, !.pc = "listening"]
    /\ UNCHANGED <<engineVars, targetVars, directoryVars, gameFeed>>

\* room.ts 331-338: select the players of the room and yield the room that
\* was found with them; the listener is attached when the client asks for
\* the next item
OnRoomUpdatePlayers ==
    /\ roomFeed.pc = "players"
    /\ roomFeed' = [roomFeed EXCEPT
            !.pc = "listening",
            !.first = [kind |-> "snapshot", room |-> roomFeed.room,
                       players |-> RoomPlayers(roomFeed.roomId)]]
    /\ UNCHANGED <<engineVars, targetVars, directoryVars, gameFeed>>

\* ============================================================ updateConfig
\* The checks without the one on the creator.
UpdateConfigAnyPlayer(r, p) == r.status = "lobby"

\* game.ts 140-150: the checks on the room row that was read
UpdateConfigAllowed(r, p) == r.creatorId = p /\ r.status = "lobby"

\* game.ts 138-150: select the room, throw unless creator and lobby
UpdateConfigRead(p, cfg) ==
    /\ IF UpdateConfigAllowed(room, p)
       THEN calls' = Suspend([Call("updateConfig", "write", 0, p)
                                  EXCEPT !.cfg = cfg])
       ELSE UNCHANGED calls
    /\ UNCHANGED <<room, totalScore, isReady, games, answers, guesses,
                   ratingRuns, endedAt, gameRows,
                   targetVars, feedVars,
                   directoryVars>>

\* game.ts 152-160: one UPDATE sets the three fields
ConfigWritten(r, cfg) ==
    [r EXCEPT !.totalRounds = cfg.totalRounds,
              !.roundTimeLimit = cfg.roundTimeLimit,
              !.initialPrompt = cfg.initialPrompt]

UpdateConfigWrite(c) ==
    /\ c \in InFlight /\ c.op = "updateConfig" /\ c.pc = "write"
    /\ room' = ConfigWritten(room, c.cfg)
    /\ calls' = Finish(c)
    /\ UNCHANGED <<totalScore, isReady, games, answers, guesses,
                   ratingRuns, endedAt, gameRows,
                   targetVars, feedVars,
                   directoryVars>>

\* =============================================================== startGame
\* game.ts 174-186
StartGameRead(p) ==
    /\ IF room.creatorId = p /\ room.status = "lobby"
       THEN calls' = Suspend(Call("startGame", "write", 0, p))
       ELSE UNCHANGED calls
    /\ UNCHANGED <<room, totalScore, isReady, games, answers, guesses,
                   ratingRuns, endedAt, gameRows,
                   targetVars, feedVars,
                   directoryVars>>

\* The update sets the status and leaves currentRound as it is.
StartGameWriteStatusOnly(c) ==
    /\ c \in InFlight /\ c.op = "startGame" /\ c.pc = "write"
    /\ room' = [room EXCEPT !.status = "playing"]
    /\ calls' = Finish(c)
    /\ UNCHANGED <<totalScore, isReady, games, answers, guesses,
                   ratingRuns, endedAt, gameRows,
                   targetVars, feedVars,
                   directoryVars>>

\* game.ts 188-195
StartGameWrite(c) ==
    /\ c \in InFlight /\ c.op = "startGame" /\ c.pc = "write"
    /\ room' = [room EXCEPT !.status = "playing", !.currentRound = 1]
    /\ calls' = Finish(c)
    /\ UNCHANGED <<totalScore, isReady, games, answers, guesses,
                   ratingRuns, endedAt, gameRows,
                   targetVars, feedVars,
                   directoryVars>>

\* ========================================================== getCurrentGame
\* game.ts 208-216: select the room; null unless playing
GetCurrentGameRead ==
    /\ IF room.status = "playing"
       THEN calls' = Suspend([Call("getCurrentGame", "lookup", 0, 0)
                                  EXCEPT !.round = room.currentRound])
       ELSE UNCHANGED calls
    /\ UNCHANGED <<room, totalScore, isReady, games, answers, guesses,
                   ratingRuns, endedAt, gameRows,
                   targetVars, feedVars,
                   directoryVars>>

\* game.ts 218-234, 268-270: select the game of the round that was read;
\* if there is none, generate a question (the previous questions are read
\* and the generator is awaited before the insert)
GetCurrentGameLookup(c) ==
    /\ c \in InFlight /\ c.op = "getCurrentGame" /\ c.pc = "lookup"
    /\ IF games[c.round] # "none"
       THEN calls' = Finish(c)
       ELSE calls' = Resume(c, [c EXCEPT !.pc = "insert"])
    /\ UNCHANGED <<room, totalScore, isReady, games, answers, guesses,
                   ratingRuns, endedAt, gameRows,
                   targetVars, feedVars,
                   directoryVars>>

\* An insert that no unique index stops.
GetCurrentGameInsertedUnchecked(c, q) == q # Null

\* Whether the insert of game.ts 236-241 is reached and succeeds.
GetCurrentGameInserted(c, q) == q # Null /\ gameRows[c.round] = {}

\* What the call returns: the question of the row, Null when it throws.
GetCurrentGameResult(c, q) ==
    IF GetCurrentGameInserted(c, q) THEN q
    ELSE IF gameRows[c.round] # {}
         THEN CHOOSE x \in gameRows[c.round] : TRUE
         ELSE Null

\* game.ts 223-264: the generator's stream is read and the row inserted;
\* q is the question, Null when the generator throws.  The insert throws on
\* games_room_id_round_unique.  Either throw is caught: the catch block
\* reads the row of the round and returns it, or rethrows when there is
\* none.  A row of games is never deleted or rewritten here, so the catch
\* block's read is taken with the failed insert.
GetCurrentGameInsert(c, q) ==
    /\ c \in InFlight /\ c.op = "getCurrentGame" /\ c.pc = "insert"
    /\ UNCHANGED <<room, totalScore, isReady, answers, guesses,
                   ratingRuns, endedAt, targetVars, roomFeed,
                   directoryVars>>
    /\ IF GetCurrentGameInserted(c, q)
       THEN /\ games' = [games EXCEPT ![c.round] = "answering"]
            /\ gameRows' = [gameRows EXCEPT ![c.round] = @ \cup {q}]
            /\ EmitGameUpdate(c.round, "answering")
       ELSE UNCHANGED <<games, gameRows, gameFeed>>
    /\ calls' = Finish(c)

\* ============================================================== saveAnswer
\* A save can start when its row exists or the table has room for it: the
\* rows the suspended saves may still insert are counted with the table's.
AnswerRowAvailable(g, p) ==
    \/ FirstAnswer(g, p) # 0
    \/ Len(answers) + NumInFlight("saveAnswer") < MaxAnswerRows

\* game.ts 283-289, 344-350: the phase check of saveAnswer and saveGuess
SaveAccepted(status) == status = "answering"

\* game.ts 281-289: select the game; throw unless it is in answering
SaveAnswerRead(g, p, answer, submit) ==
    /\ IF SaveAccepted(games[g])
       THEN calls' = Suspend([Call("saveAnswer", "lookup", g, p)
                                  EXCEPT !.text = answer, !.submit = submit])
       ELSE UNCHANGED calls
    /\ UNCHANGED <<room, totalScore, isReady, games, answers, guesses,
                   ratingRuns, endedAt, gameRows,
                   targetVars, feedVars,
                   directoryVars>>

\* game.ts 292-294: select the player's answer of the game, limit 1
SaveAnswerLookup(c) ==
    /\ c \in InFlight /\ c.op = "saveAnswer" /\ c.pc = "lookup"
    /\ LET i == FirstAnswer(c.gameId, c.playerId)
       IN calls' = Resume(c, [c EXCEPT
                !.pc = "write",
                !.existing = i,
                !.existingSub = IF i = 0 THEN FALSE ELSE answers[i].isSubmitted])
    /\ UNCHANGED <<room, totalScore, isReady, games, answers, guesses,
                   ratingRuns, endedAt, gameRows,
                   targetVars, feedVars,
                   directoryVars>>

\* game.ts 296-319: update the row that was found, or insert one; the
\* broadcast that follows only reads
SaveAnswerWrite(c) ==
    /\ c \in InFlight /\ c.op = "saveAnswer" /\ c.pc = "write"
    /\ UNCHANGED <<room, totalScore, isReady, games, guesses,
                   ratingRuns, endedAt, gameRows,
                   targetVars, roomFeed,
                   directoryVars>>
    /\ IF c.existing # 0
       THEN answers' = [answers EXCEPT
                ![c.existing].answer = Trim(c.text),
                ![c.existing].isSubmitted = c.submit \/ c.existingSub]
       ELSE answers' = Append(answers,
                [gameId |-> c.gameId, playerId |-> c.playerId,
                 answer |-> Trim(c.text), isSubmitted |-> c.submit])
    /\ EmitGameUpdate(c.gameId, "answering")
    /\ calls' = Finish(c)

\* =============================================================== saveGuess
GuessRowAvailable(g, p, t) ==
    \/ FirstGuess(g, p, t) # 0
    \/ Len(guesses) + NumInFlight("saveGuess") < MaxGuessRows

\* game.ts 342-350
SaveGuessRead(g, p, t, guess, submit) ==
    /\ IF SaveAccepted(games[g])
       THEN calls' = Suspend([Call("saveGuess", "lookup", g, p)
                                  EXCEPT !.targetId = t, !.text = guess,
                                         !.submit = submit])
       ELSE UNCHANGED calls
    /\ UNCHANGED <<room, totalScore, isReady, games, answers, guesses,
                   ratingRuns, endedAt, gameRows,
                   targetVars, feedVars,
                   directoryVars>>

\* game.ts 353-359
SaveGuessLookup(c) ==
    /\ c \in InFlight /\ c.op = "saveGuess" /\ c.pc = "lookup"
    /\ LET i == FirstGuess(c.gameId, c.playerId, c.targetId)
       IN calls' = Resume(c, [c EXCEPT
                !.pc = "write",
                !.existing = i,
                !.existingSub = IF i = 0 THEN FALSE ELSE guesses[i].isSubmitted])
    /\ UNCHANGED <<room, totalScore, isReady, games, answers, guesses,
                   ratingRuns, endedAt, gameRows,
                   targetVars, feedVars,
                   directoryVars>>

\* game.ts 361-385
SaveGuessWrite(c) ==
    /\ c \in InFlight /\ c.op = "saveGuess" /\ c.pc = "write"
    /\ UNCHANGED <<room, totalScore, isReady, games, answers,
                   ratingRuns, endedAt, gameRows,
                   targetVars, roomFeed,
                   directoryVars>>
    /\ IF c.existing # 0
       THEN guesses' = [guesses EXCEPT
                ![c.existing].guess = Trim(c.text),
                ![c.existing].isSubmitted = c.submit \/ c.existingSub]
       ELSE guesses' = Append(guesses,
                [gameId |-> c.gameId, guesserId |-> c.playerId,
                 targetPlayerId |-> c.targetId, guess |-> Trim(c.text),
                 isSubmitted |-> c.submit, rating |-> Null])
    /\ EmitGameUpdate(c.gameId, "answering")
    /\ calls' = Finish(c)

\* ======================================================= checkGameProgress
\* Sum of the ratings of the guess rows with the indices in S (Null is 0).
RECURSIVE SumRatings(_, _)
SumRatings(rows, S) ==
    IF S = {} THEN 0
    ELSE LET i == CHOOSE j \in S : TRUE
         IN rows[i].rating + SumRatings(rows, S \ {i})

TotalRatingRuns == SumSeq([r \in Rounds |-> ratingRuns[r]])

\* A call that passes the threshold starts a rating run: at most k of them.
RatingRunsBelow(g, k) ==
    \/ ~(Cardinality(SubmittedAnswers(g)) >= NumRoomPlayers
         /\ Cardinality(SubmittedGuesses(g)) >= NumRoomPlayers)
    \/ TotalRatingRuns + NumInFlight("checkGameProgress") < k

\* game.ts 411: the comparison of the numbers of rows
ThresholdReached(g) ==
    /\ Cardinality(SubmittedAnswers(g)) >= NumRoomPlayers
    /\ Cardinality(SubmittedGuesses(g)) >= NumRoomPlayers

\* game.ts 395-411: select the game (throw if there is none), the players
\* of the room, the submitted answers and the submitted guesses, and
\* compare the counts.  The four selects are one step: the game row and the
\* player rows are never deleted here and the two counts only grow, so what
\* the selects return one after the other is what they would all return at
\* the time of the last one, or fails the comparison as an earlier read
\* would.  A call that does not reach the threshold returns.
CheckGameProgressRead(g) ==
    /\ games[g] # "none"
    /\ IF ThresholdReached(g)
       THEN calls' = Suspend(Call("checkGameProgress", "setRating", g, 0))
       ELSE UNCHANGED calls
    /\ UNCHANGED <<room, totalScore, isReady, games, answers, guesses,
                   ratingRuns, endedAt, gameRows,
                   targetVars, feedVars,
                   directoryVars>>

\* game.ts 413-418: set the status to rating whatever it was, then call
\* startAIRating
CheckGameProgressSetRating(c) ==
    /\ c \in InFlight /\ c.op = "checkGameProgress" /\ c.pc = "setRating"
    /\ games' = [games EXCEPT ![c.gameId] = "rating"]
    /\ ratingRuns' = [ratingRuns EXCEPT ![c.gameId] = @ + 1]
    /\ calls' = Resume(c, [c EXCEPT !.op = "startAIRating", !.pc = "guesses"])
    /\ UNCHANGED <<room, totalScore, isReady, answers, guesses, endedAt, gameRows,
                   targetVars, feedVars,
                   directoryVars>>

\* ============================================================ startAIRating
\* game.ts 18-26: select the guesses of the game (and the game row, which
\* exists); one rating promise is started for each guess that was read
StartAIRatingGuesses(c) ==
    /\ c \in InFlight /\ c.op = "startAIRating" /\ c.pc = "guesses"
    /\ calls' = Resume(c, [c EXCEPT !.pc = "rate",
                                    !.pending = GameGuesses(c.gameId)])
    /\ UNCHANGED <<room, totalScore, isReady, games, answers, guesses,
                   ratingRuns, endedAt, gameRows,
                   targetVars, feedVars,
                   directoryVars>>

\* What one rating promise stores: 5 when the target has no answer in the
\* game (game.ts 33-41); otherwise what rateGuess returns (46-55).
StoredRating(g, target, out) ==
    IF FirstAnswer(g, target) = 0 THEN FallbackRating ELSE RateGuess(out)

\* game.ts 26-66: one rating promise: select the target's answer, await
\* rateGuess, update the guess.  The select has no effect of its own: an
\* answer row is never deleted, and a missing one gives the value a failed
\* judge gives; so the promise is one step, at the time of its update.
StartAIRatingRateGuess(c, i, out) ==
    /\ c \in InFlight /\ c.op = "startAIRating"
    /\ c.pc \in {"rate", "fallback", "detached"}
    /\ i \in c.pending
    /\ guesses' = [guesses EXCEPT ![i].rating =
            StoredRating(c.gameId, guesses[i].targetPlayerId, out)]
    /\ calls' = IF c.pc = "detached" /\ c.pending = {i}
                THEN Finish(c)
                ELSE Resume(c, [c EXCEPT !.pending = @ \ {i}])
    /\ UNCHANGED <<room, totalScore, isReady, games, answers,
                   ratingRuns, endedAt, gameRows,
                   targetVars, feedVars,
                   directoryVars>>

\* game.ts 69-85: after Promise.all, select the guesses of the game again
\* and add each rating to its guesser's score.  The updates of the loop are
\* increments, which commute with every other step, and nothing reads a
\* score: the loop is one step with its select.
StartAIRatingAward(c) ==
    /\ c \in InFlight /\ c.op = "startAIRating" /\ c.pc = "rate"
    /\ c.pending = {}
    /\ totalScore' = [p \in Players |->
            totalScore[p] + SumRatings(guesses,
                {i \in GameGuesses(c.gameId) : guesses[i].guesserId = p})]
    /\ calls' = Resume(c, [c EXCEPT !.pc = "complete"])
    /\ UNCHANGED <<room, isReady, games, answers, guesses,
                   ratingRuns, endedAt, gameRows,
                   targetVars, feedVars,
                   directoryVars>>

\* game.ts 87-104 and 420-421: mark the game completed; what follows in
\* startAIRating and in checkGameProgress only reads and broadcasts
StartAIRatingComplete(c) ==
    /\ c \in InFlight /\ c.op = "startAIRating" /\ c.pc = "complete"
    /\ UNCHANGED <<room, totalScore, isReady, answers, guesses,
                   ratingRuns, gameRows, targetVars, roomFeed,
                   directoryVars>>
    /\ games' = [games EXCEPT ![c.gameId] = "completed"]
    /\ endedAt' = [endedAt EXCEPT ![c.gameId] = TRUE]
    /\ EmitGameUpdate(c.gameId, "completed")
    /\ calls' = Finish(c)

\* game.ts 17-105: a statement of the try block throws, and the catch block
\* of line 105 is entered.  i = 0: a statement of startAIRating itself (the
\* selects of 18-19, the select of 73 before any score is added, the update
\* of 88).  i a guess: the store of that guess's promise throws in its own
\* catch block (59-64), the promise rejects and so does Promise.all (69);
\* the promises of the other guesses go on, whether startAIRating is in its
\* catch block or has returned, and a later rejection is not seen by anyone.
StartAIRatingThrow(c, i) ==
    /\ c \in InFlight /\ c.op = "startAIRating"
    /\ \/ c.pc \in {"guesses", "complete"} /\ i = 0
       \/ c.pc = "rate" /\ c.pending = {} /\ i = 0
       \/ c.pc \in {"rate", "fallback", "detached"} /\ i \in c.pending
    /\ LET left == c.pending \ {i}
           pc == IF c.pc \in {"fallback", "detached"} THEN c.pc ELSE "fallback"
       IN calls' = IF pc = "detached" /\ left = {}
                   THEN Finish(c)
                   ELSE Resume(c, [c EXCEPT !.pc = pc, !.pending = left])
    /\ UNCHANGED <<room, totalScore, isReady, games, answers, guesses,
                   ratingRuns, endedAt, gameRows, targetVars, feedVars,
                   directoryVars>>

\* What the catch block leaves in games.status.
FallbackStatusKept(status) == status

FallbackStatus(status) == "completed"

\* game.ts 105-125: the catch block marks the game completed; the call
\* returns, and the rating promises that have not settled go on without it
StartAIRatingFallback(c) ==
    /\ c \in InFlight /\ c.op = "startAIRating" /\ c.pc = "fallback"
    /\ UNCHANGED <<room, totalScore, isReady, answers, guesses,
                   ratingRuns, gameRows, targetVars, roomFeed,
                   directoryVars>>
    /\ games' = [games EXCEPT ![c.gameId] = FallbackStatus(@)]
    /\ endedAt' = [endedAt EXCEPT ![c.gameId] = TRUE]
    /\ EmitGameUpdate(c.gameId, games'[c.gameId])
    /\ calls' = IF c.pending = {}
                THEN Finish(c)
                ELSE Resume(c, [c EXCEPT !.pc = "detached"])

\* ======================================================= readyForNextRound
\* game.ts 515-531: select the game (throw unless completed) and the
\* players of the room (throw unless the caller is one of them); the player
\* rows of the room do not change here, so the two selects are one step
ReadyAcceptedAnyPhase(status, isPlayer) == isPlayer

\* game.ts 521-531: the two checks of readyForNextRound
ReadyAccepted(status, isPlayer) == status = "completed" /\ isPlayer

ReadyForNextRoundRead(g, p) ==
    /\ IF ReadyAccepted(games[g], p \in Players)
       THEN calls' = Suspend(Call("readyForNextRound", "mark", g, p))
       ELSE UNCHANGED calls
    /\ UNCHANGED <<room, totalScore, isReady, games, answers, guesses,
                   ratingRuns, endedAt, gameRows,
                   targetVars, feedVars,
                   directoryVars>>

\* game.ts 534-536
ReadyForNextRoundMark(c) ==
    /\ c \in InFlight /\ c.op = "readyForNextRound" /\ c.pc = "mark"
    /\ isReady' = [isReady EXCEPT ![c.playerId] = TRUE]
    /\ calls' = Resume(c, [c EXCEPT !.pc = "count"])
    /\ UNCHANGED <<room, totalScore, games, answers, guesses,
                   ratingRuns, endedAt, gameRows,
                   targetVars, feedVars,
                   directoryVars>>

\* game.ts 539-543, 568-572: select the ready players and compare
ReadyForNextRoundCount(c) ==
    /\ c \in InFlight /\ c.op = "readyForNextRound" /\ c.pc = "count"
    /\ IF Cardinality({p \in Players : isReady[p]}) >= NumPlayers
       THEN calls' = Resume(c, [c EXCEPT !.pc = "room"])
       ELSE calls' = Finish(c)
    /\ UNCHANGED <<room, totalScore, isReady, games, answers, guesses,
                   ratingRuns, endedAt, gameRows,
                   targetVars, feedVars,
                   directoryVars>>

\* game.ts 546-548, 565-567: select the room; nothing more at the last round
ReadyForNextRoundRoom(c) ==
    /\ c \in InFlight /\ c.op = "readyForNextRound" /\ c.pc = "room"
    /\ IF room.currentRound < room.totalRounds
       THEN calls' = Resume(c, [c EXCEPT !.pc = "advance",
                                         !.round = room.currentRound])
       ELSE calls' = Finish(c)
    /\ UNCHANGED <<room, totalScore, isReady, games, answers, guesses,
                   ratingRuns, endedAt, gameRows,
                   targetVars, feedVars,
                   directoryVars>>

\* game.ts 551-553: currentRound becomes the round that was read, plus one
ReadyForNextRoundAdvance(c) ==
    /\ c \in InFlight /\ c.op = "readyForNextRound" /\ c.pc = "advance"
    /\ room' = [room EXCEPT !.currentRound = c.round + 1]
    /\ calls' = Resume(c, [c EXCEPT !.pc = "reset"])
    /\ UNCHANGED <<totalScore, isReady, games, answers, guesses,
                   ratingRuns, endedAt, gameRows,
                   targetVars, feedVars,
                   directoryVars>>

\* game.ts 556-564: reset every player's flag; the broadcast only reads
ReadyForNextRoundReset(c) ==
    /\ c \in InFlight /\ c.op = "readyForNextRound" /\ c.pc = "reset"
    /\ isReady' = [p \in Players |-> FALSE]
    /\ calls' = Finish(c)
    /\ UNCHANGED <<room, totalScore, games, answers, guesses,
                   ratingRuns, endedAt, gameRows,
                   targetVars, feedVars,
                   directoryVars>>

\* ================================================================== create
\* room.ts 9-12: the codes generateRoomCode draws from, here two of them; a
\* join is called with a code in either case.
Codes == {"A", "B"}
JoinCodeInputs == {"a", "B"}
Sessions == 1..NumSessions

\* room.ts 33, and what the driver throws on rooms_code_unique
RoomCreationFailed == "Failed to generate unique room code"
RoomCodeConflict == "UNIQUE constraint failed: rooms.code"

\* What the driver throws on the foreign key of players.room_id.
PlayerRoomMissing == "FOREIGN KEY constraint failed"

\* The room with id i is row i of roomRows; when the row is deleted its place
\* holds DeletedRoom, which no select finds.
DeletedRoom == [code |-> "", creatorId |-> Null, status |-> "deleted"]

\* String.prototype.toUpperCase on the codes of the model.
ToUpperCase(code) ==
    CASE code = "a" -> "A"
      [] code = "b" -> "B"
      [] OTHER -> code

\* select from rooms where code = ...: index of the first row, 0 if none
RoomWithCode(code) ==
    LET hits == {i \in 1..Len(roomRows) : roomRows[i].code = code}
    IN IF hits = {} THEN 0 ELSE CHOOSE i \in hits : \A j \in hits : i <= j

\* createId(): an id no row has yet and no call on the players holds (an id
\* is never drawn twice).  The creator's id is in its room's row before its
\* player row is inserted.
IdsInUse ==
    {roomRows[i].creatorId : i \in 1..Len(roomRows)}
        \cup {playerRows[i].id : i \in 1..Len(playerRows)}
        \cup UNION {{c.playerId, c.kickerId, c.targetId, c.existing} :
                        c \in {d \in InFlight :
                                  d.op \in {"join", "leave", "kickPlayer"}}}

CreateId ==
    IF IdsInUse = {} THEN 1
    ELSE 1 + CHOOSE x \in IdsInUse : \A y \in IdsInUse : y <= x

\* An insert that no unique index stops.
RoomInsertUnchecked(code) == TRUE

\* rooms_code_unique: whether an insert of a room with this code succeeds
RoomInsertAccepted(code) == RoomWithCode(code) = 0

\* A throw of create that leaves a room behind.
CreateThrowsKeepingRoom(c, error) ==
    /\ calls' = Finish(c)
    /\ thrown' = thrown \cup {error}
    /\ roomRows' = Append(roomRows,
            [code |-> c.code, creatorId |-> CreateId, status |-> "lobby"])
    /\ UNCHANGED <<playerRows, events>>

\* create throws: the call ends and has written nothing of its own
CreateThrows(c, error) ==
    /\ calls' = Finish(c)
    /\ thrown' = thrown \cup {error}
    /\ UNCHANGED <<roomRows, playerRows, events>>

\* room.ts 29-34 after the select of line 28 has answered for the code of
\* call c, whose attempts are counted already: leave the loop on a free
\* code or after the tenth attempt, then throw if attempts >= 10.
CreateAfterSelect(c) ==
    LET free == RoomWithCode(c.code) = 0
    IN IF ~free /\ c.attempts < MaxAttempts
       THEN /\ calls' = Resume(c, [c EXCEPT !.pc = "sample"])
            /\ UNCHANGED directoryVars
       ELSE IF c.attempts >= MaxAttempts
       THEN CreateThrows(c, RoomCreationFailed)
       ELSE /\ calls' = Resume(c, [c EXCEPT !.pc = "insertRoom"])
            /\ UNCHANGED directoryVars

\* room.ts 21-28: the call starts, draws its first code and selects
CreateRead(sid, code) ==
    /\ calls' = Suspend([Call("create", "select", 0, 0)
                            EXCEPT !.sessionId = sid, !.code = code,
                                   !.attempts = 1])
    /\ UNCHANGED <<room, totalScore, isReady, games, answers, guesses,
                   ratingRuns, endedAt, gameRows, targetVars, feedVars,
                   directoryVars>>

\* room.ts 28-34: the select answers
CreateSelect(c) ==
    /\ c \in InFlight /\ c.op = "create" /\ c.pc = "select"
    /\ CreateAfterSelect(c)
    /\ UNCHANGED <<room, totalScore, isReady, games, answers, guesses,
                   ratingRuns, endedAt, gameRows, targetVars, feedVars>>

\* room.ts 25-28: the next turn of the loop draws a code and selects
CreateSample(c, code) ==
    /\ c \in InFlight /\ c.op = "create" /\ c.pc = "sample"
    /\ calls' = Resume(c, [c EXCEPT !.pc = "select", !.code = code,
                                    !.attempts = @ + 1])
    /\ UNCHANGED <<room, totalScore, isReady, games, answers, guesses,
                   ratingRuns, endedAt, gameRows, targetVars, feedVars,
                   directoryVars>>

\* room.ts 36-42: createId for the creator and the insert of the room; the
\* insert throws on rooms_code_unique
CreateInsertRoom(c) ==
    /\ c \in InFlight /\ c.op = "create" /\ c.pc = "insertRoom"
    /\ IF RoomInsertAccepted(c.code)
       THEN /\ roomRows' = Append(roomRows,
                    [code |-> c.code, creatorId |-> CreateId,
                     status |-> "lobby"])
            /\ calls' = Resume(c, [c EXCEPT !.pc = "insertPlayer",
                                            !.roomId = Len(roomRows) + 1,
                                            !.playerId = CreateId])
            /\ UNCHANGED <<playerRows, events, thrown>>
       ELSE CreateThrows(c, RoomCodeConflict)
    /\ UNCHANGED <<room, totalScore, isReady, games, answers, guesses,
                   ratingRuns, endedAt, gameRows, targetVars, feedVars>>

\* room.ts 44-56: the insert of the creator's player row, the select of the
\* room's players and the roomUpdate event
CreateInsertPlayer(c) ==
    /\ c \in InFlight /\ c.op = "create" /\ c.pc = "insertPlayer"
    /\ UNCHANGED <<room, totalScore, isReady, games, answers, guesses,
                   ratingRuns, endedAt, gameRows, targetVars, gameFeed,
                   roomRows, thrown>>
    /\ playerRows' = Append(playerRows,
            [id |-> c.playerId, roomId |-> c.roomId,
             sessionId |-> c.sessionId, isCreator |-> TRUE,
             status |-> "online"])
    /\ EmitRoomUpdate(c.roomId)
    /\ calls' = Finish(c)

\* ==================================================================== join
\* select from players where roomId and sessionId, limit 1: index, 0 if none
PlayerOfSession(roomId, sid) ==
    LET hits == {i \in 1..Len(playerRows) :
                    playerRows[i].roomId = roomId
                    /\ playerRows[i].sessionId = sid}
    IN IF hits = {} THEN 0 ELSE CHOOSE i \in hits : \A j \in hits : i <= j

\* room.ts 67-75: select the room of the code; throw unless it is in lobby
JoinRead(roomCode, sid) ==
    LET r == RoomWithCode(ToUpperCase(roomCode))
    IN /\ IF r = 0
          THEN /\ thrown' = thrown \cup {"Room not found"}
               /\ UNCHANGED calls
          ELSE IF roomRows[r].status # "lobby"
          THEN /\ thrown' = thrown \cup {"Room is not accepting new players"}
               /\ UNCHANGED calls
          ELSE /\ calls' = Suspend([Call("join", "lookup", 0, 0)
                                EXCEPT !.sessionId = sid, !.roomId = r])
               /\ UNCHANGED thrown
       /\ UNCHANGED <<room, totalScore, isReady, games, answers, guesses,
                      ratingRuns, endedAt, gameRows, targetVars, feedVars,
                      roomRows, playerRows, events>>

\* room.ts 77-79: select the player of the session in the room
JoinLookup(c) ==
    /\ c \in InFlight /\ c.op = "join" /\ c.pc = "lookup"
    /\ LET i == PlayerOfSession(c.roomId, c.sessionId)
       IN calls' = Resume(c, [c EXCEPT
                !.pc = "write",
                !.existing = IF i = 0 THEN 0 ELSE playerRows[i].id])
    /\ UNCHANGED <<room, totalScore, isReady, games, answers, guesses,
                   ratingRuns, endedAt, gameRows, targetVars, feedVars,
                   directoryVars>>

\* The playerId the call returns: room.ts 93 and 107.
JoinResult(c) ==
    IF c.existing # 0 THEN c.existing ELSE CreateId

\* room.ts 81-107: update the row that was found, if it is still there
\* (status online; name and lastSeen are no columns of the model), or insert
\* a row; then the select of the room's players and the roomUpdate event.
\* The insert throws on the foreign key room_id when the room has been
\* deleted.
JoinWrite(c) ==
    /\ c \in InFlight /\ c.op = "join" /\ c.pc = "write"
    /\ UNCHANGED <<room, totalScore, isReady, games, answers, guesses,
                   ratingRuns, endedAt, gameRows, targetVars, gameFeed,
                   roomRows>>
    /\ IF c.existing # 0
       THEN /\ playerRows' = [i \in 1..Len(playerRows) |->
                    IF playerRows[i].id = c.existing
                    THEN [playerRows[i] EXCEPT !.status = "online"]
                    ELSE playerRows[i]]
            /\ EmitRoomUpdate(c.roomId)
            /\ UNCHANGED thrown
       ELSE IF roomRows[c.roomId] = DeletedRoom
       THEN /\ thrown' = thrown \cup {PlayerRoomMissing}
            /\ UNCHANGED playerRows
            /\ NoRoomUpdate
       ELSE /\ playerRows' = Append(playerRows,
                    [id |-> CreateId, roomId |-> c.roomId,
                     sessionId |-> c.sessionId, isCreator |-> FALSE,
                     status |-> "online"])
            /\ EmitRoomUpdate(c.roomId)
            /\ UNCHANGED thrown
    /\ calls' = Finish(c)

\* ============================================== startGame on a room row
\* select from rooms where id = ...: whether the row is there
RoomExists(r) == r \in 1..Len(roomRows) /\ roomRows[r] # DeletedRoom

\* game.ts 174-186 on the rows that create has made: select the room; throw
\* unless it exists, the caller is its creator and it is in lobby
StartGameRowRead(r, p) ==
    /\ IF RoomExists(r) /\ roomRows[r].creatorId = p
            /\ roomRows[r].status = "lobby"
       THEN calls' = Suspend([Call("startGame", "writeRow", 0, p)
                                  EXCEPT !.roomId = r])
       ELSE UNCHANGED calls
    /\ UNCHANGED <<room, totalScore, isReady, games, answers, guesses,
                   ratingRuns, endedAt, gameRows, targetVars, feedVars,
                   directoryVars>>

\* game.ts 188-198: update the room where id = roomId, select its players
\* and emit roomUpdate
StartGameRowWrite(c) ==
    /\ c \in InFlight /\ c.op = "startGame" /\ c.pc = "writeRow"
    /\ UNCHANGED <<room, totalScore, isReady, games, answers, guesses,
                   ratingRuns, endedAt, gameRows, targetVars, gameFeed,
                   playerRows, thrown>>
    /\ roomRows' = IF RoomExists(c.roomId)
                   THEN [roomRows EXCEPT ![c.roomId].status = "playing"]
                   ELSE roomRows
    /\ EmitRoomUpdate(c.roomId)
    /\ calls' = Finish(c)

\* =================================================================== leave
\* select from players where id = ... limit 1: index of the row, 0 if none
PlayerWithId(id) ==
    LET hits == {i \in 1..Len(playerRows) : playerRows[i].id = id}
    IN IF hits = {} THEN 0 ELSE CHOOSE i \in hits : TRUE

\* room.ts 237-239
HasPlayedRounds(id) ==
    \/ \E i \in 1..Len(answers) : answers[i].playerId = id
    \/ \E i \in 1..Len(guesses) : guesses[i].guesserId = id

\* delete from players where id in ids, and what the foreign keys
\* answers.player_id, guesses.guesser_id and guesses.target_player_id
\* delete with them (on delete cascade)
PlayersDeleted(ids) ==
    /\ playerRows' = SelectSeq(playerRows, LAMBDA row : row.id \notin ids)
    /\ answers' = SelectSeq(answers, LAMBDA row : row.playerId \notin ids)
    /\ guesses' = SelectSeq(guesses, LAMBDA row :
            row.guesserId \notin ids /\ row.targetPlayerId \notin ids)

\* room.ts 230-234: select the player; throw if there is none
LeaveRead(id) ==
    /\ LET i == PlayerWithId(id)
       IN IF i # 0
          THEN calls' = Suspend([Call("leave", "played", 0, id)
                    EXCEPT !.roomId = playerRows[i].roomId,
                           !.isCreator = playerRows[i].isCreator])
          ELSE UNCHANGED calls
    /\ UNCHANGED <<room, totalScore, isReady, games, answers, guesses,
                   ratingRuns, endedAt, gameRows, targetVars, feedVars,
                   directoryVars>>

\* room.ts 237-239: select an answer and a guess of the player.  The two
\* selects are one step: here no call inserts an answer or a guess, and
\* they are deleted only together, with their player.
LeavePlayed(c) ==
    /\ c \in InFlight /\ c.op = "leave" /\ c.pc = "played"
    /\ calls' = Resume(c, [c EXCEPT
            !.pc = "write", !.hasPlayedRounds = HasPlayedRounds(c.playerId)])
    /\ UNCHANGED <<room, totalScore, isReady, games, answers, guesses,
                   ratingRuns, endedAt, gameRows, targetVars, feedVars,
                   directoryVars>>

\* room.ts 241-252: a player who has played is kept and set offline; the
\* row of one who has not is deleted
LeaveWrite(c) ==
    /\ c \in InFlight /\ c.op = "leave" /\ c.pc = "write"
    /\ IF c.hasPlayedRounds
       THEN /\ playerRows' = [i \in 1..Len(playerRows) |->
                    IF playerRows[i].id = c.playerId
                    THEN [playerRows[i] EXCEPT !.status = "offline"]
                    ELSE playerRows[i]]
            /\ UNCHANGED <<answers, guesses>>
       ELSE PlayersDeleted({c.playerId})
    /\ calls' = Resume(c, [c EXCEPT !.pc = "room"])
    /\ UNCHANGED <<room, totalScore, isReady, games,
                   ratingRuns, endedAt, gameRows, targetVars, feedVars,
                   roomRows, events, thrown>>

\* room.ts 255-256, 280: select the room of the player; return if it is gone
LeaveRoom(c) ==
    /\ c \in InFlight /\ c.op = "leave" /\ c.pc = "room"
    /\ IF RoomExists(c.roomId)
       THEN calls' = Resume(c, [c EXCEPT !.pc = "remaining"])
       ELSE calls' = Finish(c)
    /\ UNCHANGED <<room, totalScore, isReady, games, answers, guesses,
                   ratingRuns, endedAt, gameRows, targetVars, feedVars,
                   directoryVars>>

\* room.ts 257-264, 275-276: select the players of the room.  None: the
\* room is to be deleted.  The leaving player was the creator: the first of
\* them is to be the creator.  Otherwise the players are selected once more
\* and roomUpdate is emitted.
LeaveRemaining(c) ==
    /\ c \in InFlight /\ c.op = "leave" /\ c.pc = "remaining"
    /\ UNCHANGED <<room, totalScore, isReady, games, answers, guesses,
                   ratingRuns, endedAt, gameRows, targetVars, gameFeed,
                   roomRows, playerRows, thrown>>
    /\ LET remainingPlayers == RoomPlayers(c.roomId)
       IN IF remainingPlayers = <<>>
          THEN /\ calls' = Resume(c, [c EXCEPT !.pc = "deleteRoom"])
               /\ NoRoomUpdate
          ELSE IF c.isCreator
          THEN /\ calls' = Resume(c, [c EXCEPT
                        !.pc = "setCreator",
                        !.targetId = remainingPlayers[1].id])
               /\ NoRoomUpdate
          ELSE /\ calls' = Finish(c)
               /\ EmitRoomUpdate(c.roomId)

\* room.ts 261: delete the room, and with it the players that have
\* room_id = its id (on delete cascade) and their answers and guesses
LeaveDeleteRoom(c) ==
    /\ c \in InFlight /\ c.op = "leave" /\ c.pc = "deleteRoom"
    /\ roomRows' = IF RoomExists(c.roomId)
                   THEN [roomRows EXCEPT ![c.roomId] = DeletedRoom]
                   ELSE roomRows
    /\ PlayersDeleted({playerRows[i].id : i \in
            {j \in 1..Len(playerRows) : playerRows[j].roomId = c.roomId}})
    /\ calls' = Finish(c)
    /\ UNCHANGED <<room, totalScore, isReady, games,
                   ratingRuns, endedAt, gameRows, targetVars, feedVars,
                   events, thrown>>

\* room.ts 265-267: set isCreator on the player that was first
LeaveSetCreator(c) ==
    /\ c \in InFlight /\ c.op = "leave" /\ c.pc = "setCreator"
    /\ playerRows' = [i \in 1..Len(playerRows) |->
            IF playerRows[i].id = c.targetId
            THEN [playerRows[i] EXCEPT !.isCreator = TRUE]
            ELSE playerRows[i]]
    /\ calls' = Resume(c, [c EXCEPT !.pc = "setRoomCreator"])
    /\ UNCHANGED <<room, totalScore, isReady, games, answers, guesses,
                   ratingRuns, endedAt, gameRows, targetVars, feedVars,
                   roomRows, events, thrown>>

\* room.ts 269-276: set the room's creatorId to that player, select the
\* players and emit roomUpdate
LeaveSetRoomCreator(c) ==
    /\ c \in InFlight /\ c.op = "leave" /\ c.pc = "setRoomCreator"
    /\ UNCHANGED <<room, totalScore, isReady, games, answers, guesses,
                   ratingRuns, endedAt, gameRows, targetVars, gameFeed,
                   playerRows, thrown>>
    /\ roomRows' = IF RoomExists(c.roomId)
                   THEN [roomRows EXCEPT ![c.roomId].creatorId = c.targetId]
                   ELSE roomRows
    /\ EmitRoomUpdate(c.roomId)
    /\ calls' = Finish(c)

\* ============================================================== kickPlayer
\* room.ts 303-310: the two checks of kickPlayer
KickAllowed(creatorId, kickerId, playerId) ==
    creatorId = kickerId /\ playerId # kickerId

\* room.ts 290-294: select the player to kick; throw if there is none
KickRead(id, kickerId) ==
    /\ LET i == PlayerWithId(id)
       IN IF i # 0
          THEN calls' = Suspend([Call("kickPlayer", "room", 0, id)
                    EXCEPT !.roomId = playerRows[i].roomId,
                           !.kickerId = kickerId])
          ELSE UNCHANGED calls
    /\ UNCHANGED <<room, totalScore, isReady, games, answers, guesses,
                   ratingRuns, endedAt, gameRows, targetVars, feedVars,
                   directoryVars>>

\* room.ts 297-310: select the room; throw unless it exists, the kicker is
\* its creator and the kicker is not the player
KickRoom(c) ==
    /\ c \in InFlight /\ c.op = "kickPlayer" /\ c.pc = "room"
    /\ IF RoomExists(c.roomId)
            /\ KickAllowed(roomRows[c.roomId].creatorId, c.kickerId,
                           c.playerId)
       THEN calls' = Resume(c, [c EXCEPT !.pc = "delete"])
       ELSE calls' = Finish(c)
    /\ UNCHANGED <<room, totalScore, isReady, games, answers, guesses,
                   ratingRuns, endedAt, gameRows, targetVars, feedVars,
                   directoryVars>>

\* room.ts 313-317: delete the player, select the players that are left and
\* emit roomUpdate
KickDelete(c) ==
    /\ c \in InFlight /\ c.op = "kickPlayer" /\ c.pc = "delete"
    /\ UNCHANGED <<room, totalScore, isReady, games,
                   ratingRuns, endedAt, gameRows, targetVars, gameFeed,
                   roomRows, thrown>>
    /\ PlayersDeleted({c.playerId})
    /\ EmitRoomUpdate(c.roomId)
    /\ calls' = Finish(c)

\* ============================================================ the schedules
\* The rooms that create and join work on are followed in SpecRooms; the
\* other specifications follow one room whose players have joined.
NoRooms ==
    /\ roomRows = <<>>
    /\ playerRows = <<>>
    /\ events = 0
    /\ thrown = {}

\* A call can start while fewer than MaxCalls calls are suspended.
CanCall == NumCalls < MaxCalls

RoundOps == {"saveAnswer", "saveGuess", "checkGameProgress", "startAIRating"}

\* No call on the rows of a round is suspended.
RoundCallsIdle == \A c \in InFlight : c.op \notin RoundOps

\* The game ids the handlers are called with: the rounds a room with the
\* default configuration can reach; a round without a game is an unknown id.
GameIds == 1..DefaultTotalRounds

\* What the clients send: a submitted text, and a guess about another player.
\* SpecSave has the drafts and the edits as well.
SubmitInputs == {TRUE}
TextInputs == {<<"a">>}
TargetInputs(p) == Players \ {p}

\* The steps of the calls that are suspended.  Of the throws of
\* startAIRating, those of its own statements; SpecRound has the rejections
\* of its rating promises as well.
Resumed ==
    \E c \in InFlight :
        \/ UpdateConfigWrite(c)
        \/ StartGameWrite(c)
        \/ GetCurrentGameLookup(c)
        \/ \E q \in Questions : GetCurrentGameInsert(c, q)
        \/ SaveAnswerLookup(c)
        \/ SaveAnswerWrite(c)
        \/ SaveGuessLookup(c)
        \/ SaveGuessWrite(c)
        \/ CheckGameProgressSetRating(c)
        \/ StartAIRatingGuesses(c)
        \/ \E i \in c.pending, out \in JudgeOutcomes :
                StartAIRatingRateGuess(c, i, out)
        \/ StartAIRatingAward(c)
        \/ StartAIRatingComplete(c)
        \/ StartAIRatingThrow(c, 0)
        \/ StartAIRatingFallback(c)
        \/ ReadyForNextRoundMark(c)
        \/ ReadyForNextRoundCount(c)
        \/ ReadyForNextRoundRoom(c)
        \/ ReadyForNextRoundAdvance(c)
        \/ ReadyForNextRoundReset(c)

\* ------------------------------------------------- the life of a room: Spec
\* A room as create leaves it (room.ts 38-51, schema defaults), with its
\* players joined: player 1 is the creator.
Init ==
    /\ room = [status |-> "lobby", creatorId |-> 1, currentRound |-> 0,
               totalRounds |-> DefaultTotalRounds,
               roundTimeLimit |-> DefaultRoundTimeLimit,
               initialPrompt |-> DefaultInitialPrompt]
    /\ totalScore = [p \in Players |-> 0]
    /\ isReady = [p \in Players |-> FALSE]
    /\ games = [r \in Rounds |-> "none"]
    /\ gameRows = [r \in Rounds |-> {}]
    /\ answers = <<>>
    /\ guesses = <<>>
    /\ calls = EmptyBag
    /\ ratingRuns = [r \in Rounds |-> 0]
    /\ endedAt = [r \in Rounds |-> FALSE]
    /\ NoRooms
    /\ tPlayers = <<>>
    /\ tRound = 1
    /\ tCaller = 1
    /\ tResult = Null
    /\ tShown = Null
    /\ results = <<>>
    /\ NoSubscribers

\* Every handler of the round engine, from the lobby on.  The calls on the
\* rows of a round start one at a time (SpecRound interleaves them); the
\* calls on the room interleave with them and with each other.
Next ==
    \/ CanCall /\ \E p \in Callers, cfg \in ConfigInputs :
            UpdateConfigRead(p, cfg)
    \/ CanCall /\ \E p \in Callers : StartGameRead(p)
    \/ CanCall /\ GetCurrentGameRead
    \/ CanCall /\ RoundCallsIdle /\ \E g \in GameIds, p \in Players :
            \E x \in TextInputs, s \in SubmitInputs :
                AnswerRowAvailable(g, p) /\ SaveAnswerRead(g, p, x, s)
    \/ CanCall /\ RoundCallsIdle /\ \E g \in GameIds, p \in Players :
            \E t \in TargetInputs(p), x \in TextInputs, s \in SubmitInputs :
                GuessRowAvailable(g, p, t) /\ SaveGuessRead(g, p, t, x, s)
    \/ CanCall /\ RoundCallsIdle /\ \E g \in GameIds :
            RatingRunsBelow(g, MaxRoomRatingRuns) /\ CheckGameProgressRead(g)
    \/ CanCall /\ \E g \in GameIds, p \in Callers :
            ReadyForNextRoundRead(g, p)
    \/ Resumed

Spec == Init /\ [][Next]_vars

\* -------------------------------------------------- one round: SpecRound
\* The room after startGame and the first getCurrentGame: round 1 is in
\* answering and nothing has been saved yet.
InitRound ==
    /\ room = [status |-> "playing", creatorId |-> 1, currentRound |-> 1,
               totalRounds |-> DefaultTotalRounds,
               roundTimeLimit |-> DefaultRoundTimeLimit,
               initialPrompt |-> DefaultInitialPrompt]
    /\ totalScore = [p \in Players |-> 0]
    /\ isReady = [p \in Players |-> FALSE]
    /\ games = [r \in Rounds |-> IF r = 1 THEN "answering" ELSE "none"]
    /\ gameRows = [r \in Rounds |-> IF r = 1 THEN {1} ELSE {}]
    /\ answers = <<>>
    /\ guesses = <<>>
    /\ calls = EmptyBag
    /\ ratingRuns = [r \in Rounds |-> 0]
    /\ endedAt = [r \in Rounds |-> FALSE]
    /\ NoRooms
    /\ tPlayers = <<>>
    /\ tRound = 1
    /\ tCaller = 1
    /\ tResult = Null
    /\ tShown = Null
    /\ results = <<>>
    /\ NoSubscribers

\* The steps of the suspended calls on the rows of the round.
RoundResumed ==
    \E c \in InFlight :
        \/ SaveAnswerLookup(c)
        \/ SaveAnswerWrite(c)
        \/ SaveGuessLookup(c)
        \/ SaveGuessWrite(c)
        \/ CheckGameProgressSetRating(c)
        \/ StartAIRatingGuesses(c)
        \/ \E i \in c.pending, out \in JudgeOutcomes :
                StartAIRatingRateGuess(c, i, out)
        \/ StartAIRatingAward(c)
        \/ StartAIRatingComplete(c)
        \/ \E i \in c.pending \cup {0} : StartAIRatingThrow(c, i)
        \/ StartAIRatingFallback(c)

\* The calls on the rows of round 1, interleaved at every await.
NextRound ==
    \/ CanCall /\ \E p \in Players, x \in TextInputs, s \in SubmitInputs :
            AnswerRowAvailable(1, p) /\ SaveAnswerRead(1, p, x, s)
    \/ CanCall /\ \E p \in Players :
            \E t \in TargetInputs(p), x \in TextInputs, s \in SubmitInputs :
                GuessRowAvailable(1, p, t) /\ SaveGuessRead(1, p, t, x, s)
    \/ CanCall /\ RatingRunsBelow(1, MaxRatingRuns) /\ CheckGameProgressRead(1)
    \/ RoundResumed

SpecRound == InitRound /\ [][NextRound]_vars

\* ------------------------------------- the rating of a round: SpecRating
\* Round 1 when every player has submitted an answer and a guess about the
\* other player, and no call is suspended.
InitRating ==
    /\ room = [status |-> "playing", creatorId |-> 1, currentRound |-> 1,
               totalRounds |-> DefaultTotalRounds,
               roundTimeLimit |-> DefaultRoundTimeLimit,
               initialPrompt |-> DefaultInitialPrompt]
    /\ totalScore = [p \in Players |-> 0]
    /\ isReady = [p \in Players |-> FALSE]
    /\ games = [r \in Rounds |-> IF r = 1 THEN "answering" ELSE "none"]
    /\ gameRows = [r \in Rounds |-> IF r = 1 THEN {1} ELSE {}]
    /\ answers = [p \in Players |->
            [gameId |-> 1, playerId |-> p, answer |-> <<"a">>,
             isSubmitted |-> TRUE]]
    /\ guesses = [p \in Players |->
            [gameId |-> 1, guesserId |-> p,
             targetPlayerId |-> (p % NumPlayers) + 1, guess |-> <<"a">>,
             isSubmitted |-> TRUE, rating |-> Null]]
    /\ calls = EmptyBag
    /\ ratingRuns = [r \in Rounds |-> 0]
    /\ endedAt = [r \in Rounds |-> FALSE]
    /\ NoRooms
    /\ tPlayers = <<>>
    /\ tRound = 1
    /\ tCaller = 1
    /\ tResult = Null
    /\ tShown = Null
    /\ results = <<>>
    /\ NoSubscribers

\* The steps of the suspended checkGameProgress calls and rating runs.
RatingResumed ==
    \E c \in InFlight :
        \/ CheckGameProgressSetRating(c)
        \/ StartAIRatingGuesses(c)
        \/ \E i \in c.pending, out \in JudgeOutcomes :
                StartAIRatingRateGuess(c, i, out)
        \/ StartAIRatingAward(c)
        \/ StartAIRatingComplete(c)
        \/ \E i \in c.pending \cup {0} : StartAIRatingThrow(c, i)
        \/ StartAIRatingFallback(c)

NextRating ==
    \/ CanCall /\ RatingRunsBelow(1, MaxRatingRuns) /\ CheckGameProgressRead(1)
    \/ RatingResumed

\* The event loop runs every continuation that is ready: a suspended call
\* whose statement has answered is resumed.
SpecRating == InitRating /\ [][NextRating]_vars /\ WF_vars(RatingResumed)

\* ------------------------------------------ saves on a full round: SpecSave
\* Round 1 as in InitRating, every answer and guess submitted.  The clients
\* keep saving: drafts and submits, with the text they hold or an edited one.
EditSubmits == {TRUE, FALSE}
EditTexts == {<<"a">>, <<" ", "b">>}

NextSave ==
    \/ CanCall /\ \E p \in Players, x \in EditTexts, s \in EditSubmits :
            AnswerRowAvailable(1, p) /\ SaveAnswerRead(1, p, x, s)
    \/ CanCall /\ \E p \in Players :
            \E t \in TargetInputs(p), x \in EditTexts, s \in EditSubmits :
                GuessRowAvailable(1, p, t) /\ SaveGuessRead(1, p, t, x, s)
    \/ CanCall /\ RatingRunsBelow(1, MaxRoomRatingRuns)
         /\ CheckGameProgressRead(1)
    \/ \E c \in InFlight :
        \/ SaveAnswerLookup(c)
        \/ SaveAnswerWrite(c)
        \/ SaveGuessLookup(c)
        \/ SaveGuessWrite(c)
    \/ RatingResumed

SpecSave == InitRating /\ [][NextSave]_vars

\* ------------------------------------------ the end of a round: SpecReady
\* Round 1 after a rating run in which the judge answered: completed, every
\* guess rated and the scores awarded.
InitReady ==
    /\ room = [status |-> "playing", creatorId |-> 1, currentRound |-> 1,
               totalRounds |-> DefaultTotalRounds,
               roundTimeLimit |-> DefaultRoundTimeLimit,
               initialPrompt |-> DefaultInitialPrompt]
    /\ totalScore = [p \in Players |-> CHOOSE v \in JudgeValues : TRUE]
    /\ isReady = [p \in Players |-> FALSE]
    /\ games = [r \in Rounds |-> IF r = 1 THEN "completed" ELSE "none"]
    /\ gameRows = [r \in Rounds |-> IF r = 1 THEN {1} ELSE {}]
    /\ answers = [p \in Players |->
            [gameId |-> 1, playerId |-> p, answer |-> <<"a">>,
             isSubmitted |-> TRUE]]
    /\ guesses = [p \in Players |->
            [gameId |-> 1, guesserId |-> p,
             targetPlayerId |-> (p % NumPlayers) + 1, guess |-> <<"a">>,
             isSubmitted |-> TRUE, rating |-> CHOOSE v \in JudgeValues : TRUE]]
    /\ calls = EmptyBag
    /\ ratingRuns = [r \in Rounds |-> IF r = 1 THEN 1 ELSE 0]
    /\ endedAt = [r \in Rounds |-> r = 1]
    /\ NoRooms
    /\ tPlayers = <<>>
    /\ tRound = 1
    /\ tCaller = 1
    /\ tResult = Null
    /\ tShown = Null
    /\ results = <<>>
    /\ NoSubscribers

\* readyForNextRound by the players and by an outsider, for the rounds of
\* the room, and the getCurrentGame that opens the round the room moved to;
\* interleaved at every await.
NextReady ==
    \/ CanCall /\ \E g \in GameIds, p \in Callers :
            ReadyForNextRoundRead(g, p)
    \/ CanCall /\ GetCurrentGameRead
    \/ \E c \in InFlight :
        \/ ReadyForNextRoundMark(c)
        \/ ReadyForNextRoundCount(c)
        \/ ReadyForNextRoundRoom(c)
        \/ ReadyForNextRoundAdvance(c)
        \/ ReadyForNextRoundReset(c)
        \/ GetCurrentGameLookup(c)
        \/ \E q \in Questions : GetCurrentGameInsert(c, q)

SpecReady == InitReady /\ [][NextReady]_vars

\* ------------------------------------------------ the lobby: SpecLobby
\* updateConfig, startGame and getCurrentGame on the room that create left,
\* interleaved at every await.
NextLobby ==
    \/ CanCall /\ \E p \in Callers, cfg \in LobbyConfigInputs :
            UpdateConfigRead(p, cfg)
    \/ CanCall /\ \E p \in Callers : StartGameRead(p)
    \/ CanCall /\ GetCurrentGameRead
    \/ \E c \in InFlight :
        \/ UpdateConfigWrite(c)
        \/ StartGameWrite(c)
        \/ GetCurrentGameLookup(c)
        \/ \E q \in LobbyQuestions : GetCurrentGameInsert(c, q)

SpecLobby == Init /\ [][NextLobby]_vars

\* ------------------------------------------- create and join: SpecRooms
\* No room yet, and the engine's room untouched.
InitRooms ==
    /\ room = [status |-> "lobby", creatorId |-> 1, currentRound |-> 0,
               totalRounds |-> DefaultTotalRounds,
               roundTimeLimit |-> DefaultRoundTimeLimit,
               initialPrompt |-> DefaultInitialPrompt]
    /\ totalScore = [p \in Players |-> 0]
    /\ isReady = [p \in Players |-> FALSE]
    /\ games = [r \in Rounds |-> "none"]
    /\ gameRows = [r \in Rounds |-> {}]
    /\ answers = <<>>
    /\ guesses = <<>>
    /\ calls = EmptyBag
    /\ ratingRuns = [r \in Rounds |-> 0]
    /\ endedAt = [r \in Rounds |-> FALSE]
    /\ NoRooms
    /\ tPlayers = <<>>
    /\ tRound = 1
    /\ tCaller = 1
    /\ tResult = Null
    /\ tShown = Null
    /\ results = <<>>
    /\ NoSubscribers

\* A call that emits an event can start while events are left for it.
EventAvailable == events + NumCalls < MaxEvents

\* A create can start while the table has room for its row.
RoomRowAvailable == Len(roomRows) + NumInFlight("create") < MaxRooms

\* A join can start when its row exists or the table has room for it and
\* for the rows of the calls that are suspended.
PlayerRowAvailable(roomCode, sid) ==
    \/ PlayerOfSession(RoomWithCode(ToUpperCase(roomCode)), sid) # 0
    \/ Len(playerRows) + NumInFlight("create") + NumInFlight("join")
           < MaxPlayerRows

\* create and join, interleaved at every await.
NextRooms ==
    \/ CanCall /\ EventAvailable /\ RoomRowAvailable
         /\ \E sid \in Sessions, code \in Codes : CreateRead(sid, code)
    \/ CanCall /\ EventAvailable
         /\ \E roomCode \in JoinCodeInputs, sid \in Sessions :
                PlayerRowAvailable(roomCode, sid) /\ JoinRead(roomCode, sid)
    \/ \E c \in InFlight :
        \/ CreateSelect(c)
        \/ \E code \in Codes : CreateSample(c, code)
        \/ CreateInsertRoom(c)
        \/ CreateInsertPlayer(c)
        \/ JoinLookup(c)
        \/ JoinWrite(c)

SpecRooms == InitRooms /\ [][NextRooms]_vars

\* ------------------------------- the players of a room: SpecMembers
\* One room with its creator and a second player, as create and join leave
\* them.  The room is in lobby, or startGame has been called and some of the
\* players have an answer in its first round.  The engine's room is
\* untouched, and the rows of table games of this room are not followed.
MemberIds == 1..MaxPlayerRows
MemberSessions == 1..(NumSessions + 1)

InitMembers ==
    /\ room = [status |-> "lobby", creatorId |-> 1, currentRound |-> 0,
               totalRounds |-> DefaultTotalRounds,
               roundTimeLimit |-> DefaultRoundTimeLimit,
               initialPrompt |-> DefaultInitialPrompt]
    /\ totalScore = [p \in Players |-> 0]
    /\ isReady = [p \in Players |-> FALSE]
    /\ games = [r \in Rounds |-> "none"]
    /\ gameRows = [r \in Rounds |-> {}]
    /\ \E status \in {"lobby", "playing"} :
        /\ roomRows = <<[code |-> "A", creatorId |-> 1, status |-> status]>>
        /\ \E played \in SUBSET (1..2) :
            /\ status = "lobby" => played = {}
            /\ answers = SelectSeq(
                    [p \in 1..2 |-> [gameId |-> 1, playerId |-> p,
                                     answer |-> <<"a">>, isSubmitted |-> TRUE]],
                    LAMBDA row : row.playerId \in played)
    /\ playerRows = [p \in 1..2 |->
            [id |-> p, roomId |-> 1, sessionId |-> p, isCreator |-> p = 1,
             status |-> "online"]]
    /\ guesses = <<>>
    /\ calls = EmptyBag
    /\ ratingRuns = [r \in Rounds |-> 0]
    /\ endedAt = [r \in Rounds |-> FALSE]
    /\ events = 0
    /\ thrown = {}
    /\ tPlayers = <<>>
    /\ tRound = 1
    /\ tCaller = 1
    /\ tResult = Null
    /\ tShown = Null
    /\ results = <<>>
    /\ NoSubscribers

\* join, leave, kickPlayer and startGame on the room, interleaved at every
\* await.
NextMembers ==
    \/ CanCall /\ EventAvailable
         /\ \E roomCode \in JoinCodeInputs, sid \in MemberSessions :
                PlayerRowAvailable(roomCode, sid) /\ JoinRead(roomCode, sid)
    \/ CanCall /\ EventAvailable /\ \E id \in MemberIds : LeaveRead(id)
    \/ CanCall /\ EventAvailable
         /\ \E id \in MemberIds, kickerId \in MemberIds : KickRead(id, kickerId)
    \/ CanCall /\ EventAvailable
         /\ \E r \in 1..MaxRooms, p \in MemberIds : StartGameRowRead(r, p)
    \/ \E c \in InFlight :
        \/ JoinLookup(c)
        \/ JoinWrite(c)
        \/ LeavePlayed(c)
        \/ LeaveWrite(c)
        \/ LeaveRoom(c)
        \/ LeaveRemaining(c)
        \/ LeaveDeleteRoom(c)
        \/ LeaveSetCreator(c)
        \/ LeaveSetRoomCreator(c)
        \/ KickRoom(c)
        \/ KickDelete(c)
        \/ StartGameRowWrite(c)

SpecMembers == InitMembers /\ [][NextMembers]_vars

\* ------------------------------------------- the subscribers: SpecFeeds
\* Round 1 of a room in answering, as in InitRound; its row and the rows of
\* its two players in roomRows and playerRows.  The players save answers
\* and the creator kicks, while a client subscribes to the updates of the
\* game and of the room.
InitFeeds ==
    /\ room = [status |-> "playing", creatorId |-> 1, currentRound |-> 1,
               totalRounds |-> DefaultTotalRounds,
               roundTimeLimit |-> DefaultRoundTimeLimit,
               initialPrompt |-> DefaultInitialPrompt]
    /\ totalScore = [p \in Players |-> 0]
    /\ isReady = [p \in Players |-> FALSE]
    /\ games = [r \in Rounds |-> IF r = 1 THEN "answering" ELSE "none"]
    /\ gameRows = [r \in Rounds |-> IF r = 1 THEN {1} ELSE {}]
    /\ answers = <<>>
    /\ guesses = <<>>
    /\ calls = EmptyBag
    /\ ratingRuns = [r \in Rounds |-> 0]
    /\ endedAt = [r \in Rounds |-> FALSE]
    /\ roomRows = <<[code |-> "A", creatorId |-> 1, status |-> "playing"]>>
    /\ playerRows = [p \in Players |->
            [id |-> p, roomId |-> 1, sessionId |-> p, isCreator |-> p = 1,
             status |-> "online"]]
    /\ events = 0
    /\ thrown = {}
    /\ tPlayers = <<>>
    /\ tRound = 1
    /\ tCaller = 1
    /\ tResult = Null
    /\ tShown = Null
    /\ results = <<>>
    /\ NoSubscribers

NextFeeds ==
    \/ OnGameUpdateSubscribe
    \/ \E r \in 1..MaxRooms : OnRoomUpdateSubscribe(r)
    \/ OnRoomUpdatePlayers
    \/ CanCall /\ \E p \in Players, x \in TextInputs, s \in EditSubmits :
            AnswerRowAvailable(1, p) /\ SaveAnswerRead(1, p, x, s)
    \/ CanCall /\ EventAvailable
         /\ \E id \in Players, kickerId \in Players : KickRead(id, kickerId)
    \/ \E c \in InFlight :
        \/ SaveAnswerLookup(c)
        \/ SaveAnswerWrite(c)
        \/ KickRoom(c)
        \/ KickDelete(c)

SpecFeeds == InitFeeds /\ [][NextFeeds]_vars

\* ------------------------------------------- getGuessTarget: SpecTarget
PlayerIds == 1..MaxIds

\* The player rows of a room as a select can return them: distinct ids, in
\* any order.
RoomPlayerLists ==
    {s \in UNION {[1..n -> PlayerIds] : n \in 1..MaxRoomSize} :
        \A i, j \in 1..Len(s) : i # j => s[i] # s[j]}

NotQueried == [done |-> FALSE, id |-> Null]

InitTarget ==
    /\ room = [status |-> "playing", creatorId |-> 1, currentRound |-> 1,
               totalRounds |-> DefaultTotalRounds,
               roundTimeLimit |-> DefaultRoundTimeLimit,
               initialPrompt |-> DefaultInitialPrompt]
    /\ totalScore = [p \in Players |-> 0]
    /\ isReady = [p \in Players |-> FALSE]
    /\ games = [r \in Rounds |-> "none"]
    /\ gameRows = [r \in Rounds |-> {}]
    /\ answers = <<>>
    /\ guesses = <<>>
    /\ calls = EmptyBag
    /\ ratingRuns = [r \in Rounds |-> 0]
    /\ endedAt = [r \in Rounds |-> FALSE]
    /\ NoRooms
    /\ tPlayers \in RoomPlayerLists
    /\ tRound \in Rounds
    /\ tCaller \in PlayerIds
    /\ tResult = NotQueried
    /\ tShown = NotQueried
    /\ results = <<>>
    /\ NoSubscribers

\* game.ts 432-473: the query, on a game that exists; it writes nothing
GetGuessTargetQuery ==
    /\ tResult' = [done |-> TRUE,
                   id |-> GetGuessTarget(tPlayers, tRound, tCaller)]
    /\ UNCHANGED <<engineVars, directoryVars, feedVars,
                   tPlayers, tRound, tCaller, tShown, results>>

NextTarget == GetGuessTargetQuery

SpecTarget == InitTarget /\ [][NextTarget]_vars

\* ------------------------------------ getPlayerActivity: SpecActivity
\* No copy of the rows is sorted: they are used in the order of the list.
GetPlayerActivityTargetUnsorted(roomPlayers, round, playerId) ==
    LET n == Len(roomPlayers)
        currentPlayerIndex == FindIndex(roomPlayers, playerId) - 1
    IN IF n = 0 \/ currentPlayerIndex = -1 THEN Null
       ELSE LET targetIndex == (currentPlayerIndex + (round % n)) % n
            IN roomPlayers[(IF targetIndex = currentPlayerIndex
                            THEN (currentPlayerIndex + 1) % n
                            ELSE targetIndex) + 1]

\* part_001 712-727, the status line of a player who has submitted an
\* answer and has no guess yet: the target the client computes from its
\* roomPlayers and currentGame.round; Null stands for 'guessing...'.
GetPlayerActivityTarget(roomPlayers, round, playerId) ==
    IF Len(roomPlayers) > 0
    THEN LET sortedPlayers == SortById(roomPlayers)
             n == Len(sortedPlayers)
             currentPlayerIndex == FindIndex(sortedPlayers, playerId) - 1
         IN IF currentPlayerIndex # -1
            THEN LET offset == round % n
                     targetIndex == (currentPlayerIndex + offset) % n
                     finalTargetIndex ==
                         IF targetIndex = currentPlayerIndex
                         THEN (currentPlayerIndex + 1) % n
                         ELSE targetIndex
                 IN sortedPlayers[finalTargetIndex + 1]
            ELSE Null
    ELSE Null

\* The client renders the status line of tCaller from the player list and
\* the round it holds; it writes nothing on the server.
GetPlayerActivityQuery ==
    /\ tShown' = [done |-> TRUE,
                  id |-> GetPlayerActivityTarget(tPlayers, tRound, tCaller)]
    /\ UNCHANGED <<engineVars, directoryVars, feedVars,
                   tPlayers, tRound, tCaller, tResult, results>>

\* The server's query and the client's computation on the same player list
\* and round number.
NextActivity ==
    \/ GetGuessTargetQuery
    \/ GetPlayerActivityQuery

SpecActivity == InitTarget /\ [][NextActivity]_vars

\* --------------------------- answers and guesses of a round: SpecCollect
\* Round 1 of a room of one player or of NumPlayers players, in answering
\* and without answers or guesses.  The clients save drafts and submits;
\* saveGuess takes the target it is sent, and the foreign key of
\* guesses.target_player_id (part_003 43) takes the id of any player row.
InitCollect ==
    /\ room = [status |-> "playing", creatorId |-> 1, currentRound |-> 1,
               totalRounds |-> DefaultTotalRounds,
               roundTimeLimit |-> DefaultRoundTimeLimit,
               initialPrompt |-> DefaultInitialPrompt]
    /\ totalScore = [p \in Players |-> 0]
    /\ isReady = [p \in Players |-> FALSE]
    /\ games = [r \in Rounds |-> IF r = 1 THEN "answering" ELSE "none"]
    /\ gameRows = [r \in Rounds |-> IF r = 1 THEN {1} ELSE {}]
    /\ answers = <<>>
    /\ guesses = <<>>
    /\ calls = EmptyBag
    /\ ratingRuns = [r \in Rounds |-> 0]
    /\ endedAt = [r \in Rounds |-> FALSE]
    /\ roomRows = <<[code |-> "A", creatorId |-> 1, status |-> "playing"]>>
    /\ \E n \in 1..NumPlayers :
            playerRows = [p \in 1..n |->
                [id |-> p, roomId |-> 1, sessionId |-> p,
                 isCreator |-> p = 1, status |-> "online"]]
    /\ events = 0
    /\ thrown = {}
    /\ tPlayers = [i \in 1..Len(playerRows) |-> playerRows[i].id]
    /\ tRound = 1
    /\ tCaller = 1
    /\ tResult = NotQueried
    /\ tShown = NotQueried
    /\ results = <<>>
    /\ NoSubscribers

\* The calls on the rows of the round are made one after the other.
NextCollect ==
    \/ CanCall /\ RoundCallsIdle /\ \E p \in Range(tPlayers) :
            \E x \in TextInputs, s \in EditSubmits :
                AnswerRowAvailable(1, p) /\ SaveAnswerRead(1, p, x, s)
    \/ CanCall /\ RoundCallsIdle
         /\ \E p \in Range(tPlayers), t \in Range(tPlayers) :
            \E x \in TextInputs, s \in EditSubmits :
                GuessRowAvailable(1, p, t) /\ SaveGuessRead(1, p, t, x, s)
    \/ CanCall /\ RoundCallsIdle /\ RatingRunsBelow(1, MaxRoomRatingRuns)
         /\ CheckGameProgressRead(1)
    \/ GetGuessTargetQuery
    \/ \E c \in InFlight :
        \/ SaveAnswerLookup(c)
        \/ SaveAnswerWrite(c)
        \/ SaveGuessLookup(c)
        \/ SaveGuessWrite(c)
    \/ RatingResumed

SpecCollect == InitCollect /\ [][NextCollect]_vars

\* ------------------------------------------ getGameResults: SpecResults
\* game.ts 485-503: one entry per answer row of the game, in the order of
\* the table.  find gives the first guess row of the game about the
\* answer's player, or undefined; an optional chain on undefined gives
\* undefined, which is not null; x || null is null for undefined, and the
\* null of the field guess is written as the empty text.
GetGameResults(g) ==
    LET gameAnswers == SelectSeq(answers, LAMBDA row : row.gameId = g)
        undefined == -1
        FindGuess(t) ==
            LET hits == {i \in GameGuesses(g) : guesses[i].targetPlayerId = t}
            IN IF hits = {} THEN 0
               ELSE CHOOSE i \in hits : \A j \in hits : i <= j
        OptionalRating(i) == IF i = 0 THEN undefined ELSE guesses[i].rating
    IN [k \in 1..Len(gameAnswers) |->
            LET answer == gameAnswers[k]
                i == FindGuess(answer.playerId)
            IN [player |-> IF answer.playerId \in Players
                           THEN answer.playerId ELSE undefined,
                answer |-> answer.answer,
                guess |-> IF i = 0 THEN <<>> ELSE guesses[i].guess,
                guesser |-> IF i = 0 THEN Null ELSE guesses[i].guesserId,
                rating |-> IF OptionalRating(i) = undefined
                           THEN Null ELSE OptionalRating(i),
                isRated |-> OptionalRating(i) # Null]]

\* game.ts 478-505: the query on a game that exists; it writes nothing
GetGameResultsQuery(g) ==
    /\ games[g] # "none"
    /\ results' = GetGameResults(g)
    /\ UNCHANGED <<engineVars, directoryVars, feedVars,
                   tPlayers, tRound, tCaller, tResult, tShown>>

\* Round 1 from its start: the players save their answers and the guesses
\* about their targets, one call after the other, the round is rated, and
\* the results are queried at any time.
NextResults ==
    \/ CanCall /\ RoundCallsIdle
         /\ \E p \in Players, x \in TextInputs, s \in SubmitInputs :
                AnswerRowAvailable(1, p) /\ SaveAnswerRead(1, p, x, s)
    \/ CanCall /\ RoundCallsIdle /\ \E p \in Players :
            \E t \in TargetInputs(p), x \in TextInputs, s \in SubmitInputs :
                GuessRowAvailable(1, p, t) /\ SaveGuessRead(1, p, t, x, s)
    \/ CanCall /\ RoundCallsIdle /\ RatingRunsBelow(1, MaxRoomRatingRuns)
         /\ CheckGameProgressRead(1)
    \/ GetGameResultsQuery(1)
    \/ \E c \in InFlight :
        \/ SaveAnswerLookup(c)
        \/ SaveAnswerWrite(c)
        \/ SaveGuessLookup(c)
        \/ SaveGuessWrite(c)
    \/ RatingResumed

SpecResults == InitRound /\ [][NextResults]_vars

\* ================================================================= claims
Rank(status) ==
    CASE status = "none" -> 0
      [] status = "answering" -> 1
      [] status = "rating" -> 2
      [] status = "completed" -> 3

RatingInFlight ==
    \E c \in InFlight : c.op \in {"checkGameProgress", "startAIRating"}

\* Sum of the ratings of the guesses player p authored in completed rounds.
RatingsEarned(p) ==
    SumRatings(guesses,
        {i \in 1..Len(guesses) :
            guesses[i].guesserId = p /\ games[guesses[i].gameId] = "completed"})

\* C1 (SpecRound): for every round the rating process is started at most
\* once, only with the threshold of submitted answers and guesses reached,
\* and a round that is in rating or completed has been moved there by
\* exactly one checkGameProgress call.
C1_RatingStartedExactlyOnce ==
    \A r \in Rounds :
        /\ ratingRuns[r] <= 1
        /\ ratingRuns[r] >= 1 => ThresholdReached(r)
        /\ games[r] \in {"rating", "completed"} => ratingRuns[r] = 1

\* C2 (SpecRound): while no rating process is in flight, each player's
\* totalScore is the sum of the ratings of the guesses that player authored
\* in the completed rounds.
C2_ScoreIsSumOfRatings ==
    ~RatingInFlight => \A p \in Players : totalScore[p] = RatingsEarned(p)

\* C3 (SpecRound): every guess of a completed round has a rating.
C3_CompletedRoundAllRated ==
    \A r \in Rounds :
        games[r] = "completed" =>
            \A i \in GameGuesses(r) : guesses[i].rating # Null

\* C4 (SpecRound): the status of a round never moves backward along
\* answering -> rating -> completed.
C4_PhaseOnlyForward ==
    [][\A r \in Rounds : Rank(games'[r]) >= Rank(games[r])]_vars

\* C5 (SpecTarget): in a room of at least two players, getGuessTarget
\* called by a player of the room returns one player of the room, and never
\* the caller.
C5_TargetIsAnotherPlayerOfRoom ==
    (tResult.done /\ Len(tPlayers) >= 2 /\ tCaller \in Range(tPlayers)) =>
        /\ tResult.id # Null
        /\ tResult.id \in Range(tPlayers)
        /\ tResult.id # tCaller

\* The skipping case of C5: the round is a multiple of the player count.
C5_Witness ==
    /\ tResult.done
    /\ Len(tPlayers) >= 2
    /\ tCaller \in Range(tPlayers)
    /\ tRound % Len(tPlayers) = 0
    /\ tResult.id # Null

\* The player at 0-based index k of the ids in increasing order: the id
\* with exactly k smaller ids.
IdAtRank(ids, k) ==
    CHOOSE x \in ids : Cardinality({y \in ids : y < x}) = k

\* The target the specification's formula gives.
FormulaTarget(ids, round, caller) ==
    LET n == Cardinality(ids)
        i == Cardinality({y \in ids : y < caller})
        j == (i + (round % n)) % n
    IN IdAtRank(ids, IF j = i THEN (i + 1) % n ELSE j)

\* C6 (SpecTarget): a query returns the player at index (i + round mod n)
\* mod n of the ids in increasing order, or at (i + 1) mod n when that is
\* the caller's own index i; it changes no stored state, and a repeated
\* query returns the same target.
C6_TargetIsFormulaAndPure ==
    [][/\ UNCHANGED <<engineVars, directoryVars, tPlayers, tRound, tCaller>>
       /\ (Len(tPlayers) >= 2 /\ tCaller \in Range(tPlayers)) =>
              tResult'.id = FormulaTarget(Range(tPlayers), tRound, tCaller)
       /\ tResult.done => tResult' = tResult]_vars

\* A query on rows that the select returned out of the order of their ids.
C6_Witness ==
    /\ tResult.done
    /\ Len(tPlayers) >= 3
    /\ tPlayers[1] > tPlayers[2]
    /\ tCaller \in Range(tPlayers)
    /\ tResult.id # Null

\* C7 (Spec): a step of readyForNextRound that changes currentRound is taken
\* in a state where every player is ready, and after the step that ends the
\* advancing call no player is ready.
C7_AdvanceOnlyWhenAllReady ==
    [][/\ ((\E c \in InFlight : ReadyForNextRoundAdvance(c))
            /\ room'.currentRound # room.currentRound)
           => \A p \in Players : isReady[p]
       /\ (\E c \in InFlight : ReadyForNextRoundReset(c))
           => \A p \in Players : ~isReady'[p]]_vars

\* C8 (Spec): currentRound <= totalRounds in every state.
C8_RoundWithinTotal == room.currentRound <= room.totalRounds

\* C9 (Spec): once the game has started, currentRound moves from r to r + 1
\* only while the round with number r exists and is completed.
C9_AdvanceOnlyFromCompletedRound ==
    [][(room.status = "playing" /\ room'.currentRound = room.currentRound + 1)
           => games[room.currentRound] = "completed"]_vars

ConfigOf(r) ==
    [totalRounds |-> r.totalRounds, roundTimeLimit |-> r.roundTimeLimit,
     initialPrompt |-> r.initialPrompt]

\* C10 (SpecLobby): an updateConfig call by another player than the
\* creator, or on a room that is not in lobby, returns without changing
\* anything; and whenever one of totalRounds, roundTimeLimit, initialPrompt
\* changes, it is the write of an updateConfig call that passed the checks
\* and all three take the values of its input.
C10_UpdateConfigAllOrNothing ==
    [][/\ \A p \in Callers, cfg \in LobbyConfigInputs :
              (UpdateConfigRead(p, cfg)
                  /\ (p # room.creatorId \/ room.status # "lobby"))
              => UNCHANGED vars
       /\ ConfigOf(room') # ConfigOf(room) =>
              \E c \in InFlight :
                  /\ c.op = "updateConfig"
                  /\ c.playerId = room.creatorId
                  /\ calls' = Finish(c)
                  /\ ConfigOf(room') = c.cfg]_vars

\* A configuration written by the creator, on a room that has since started
\* (where every further updateConfig fails).
C10_Witness ==
    /\ room.status = "playing"
    /\ ConfigOf(room) = [totalRounds |-> MinTotalRounds + 1,
                         roundTimeLimit |-> MaxRoundTimeLimit,
                         initialPrompt |-> "custom"]


\* C11 (SpecRooms): no two rows of rooms have the same code; a create call
\* whose insert finds its code taken ends there, and inserts neither a room
\* nor a player.
C11_RoomCodesUnique ==
    /\ [](\A i, j \in 1..Len(roomRows) :
            i # j => roomRows[i].code # roomRows[j].code)
    /\ [][\A c \in InFlight :
            (CreateInsertRoom(c) /\ RoomWithCode(c.code) # 0)
                => /\ UNCHANGED <<roomRows, playerRows, events>>
                   /\ calls' = Finish(c)]_vars

\* Two create calls passed the existence check with the same code, and the
\* one that inserted second has thrown.
C11_Witness ==
    /\ RoomCodeConflict \in thrown
    /\ Len(roomRows) = 1
    /\ Len(playerRows) <= 1

\* C12 (SpecRooms): at most one row of players for a room and a session.
C12_OnePlayerPerSession ==
    \A i, j \in 1..Len(playerRows) :
        (/\ playerRows[i].roomId = playerRows[j].roomId
         /\ playerRows[i].sessionId = playerRows[j].sessionId) => i = j

\* C13 (SpecLobby): there is at most one row of games for a round; a row
\* that exists is never replaced; and every getCurrentGame call that returns
\* a game returns the one row of its round, whether it found it, inserted it
\* or lost the insert (its own question is then in no row).
C13_OneGamePerRound ==
    /\ [](\A r \in Rounds : Cardinality(gameRows[r]) <= 1)
    /\ [][/\ \A r \in Rounds :
                gameRows[r] # {} => gameRows'[r] = gameRows[r]
          /\ \A c \in InFlight, q \in LobbyQuestions :
                (GetCurrentGameInsert(c, q)
                    /\ GetCurrentGameResult(c, q) # Null)
                => gameRows'[c.round] = {GetCurrentGameResult(c, q)}
          /\ \A c \in InFlight, q \in LobbyQuestions :
                (GetCurrentGameInsert(c, q) /\ q # Null)
                => GetCurrentGameResult(c, q) # Null]_vars

\* Two calls found no game for round 1 and generated questions; one has
\* inserted its row and the other is about to lose its insert.
C13_Witness ==
    /\ gameRows[1] # {}
    /\ \E c \in InFlight :
        c.op = "getCurrentGame" /\ c.pc = "insert" /\ c.round = 1

\* C14 (SpecRound): at most one row of answers for a game and a player.
C14_OneAnswerPerPlayer ==
    \A i, j \in 1..Len(answers) :
        (/\ answers[i].gameId = answers[j].gameId
         /\ answers[i].playerId = answers[j].playerId) => i = j

\* C15 (SpecRound): at most one row of guesses for a game, a guesser and a
\* target.
C15_OneGuessPerTriple ==
    \A i, j \in 1..Len(guesses) :
        (/\ guesses[i].gameId = guesses[j].gameId
         /\ guesses[i].guesserId = guesses[j].guesserId
         /\ guesses[i].targetPlayerId = guesses[j].targetPlayerId) => i = j

\* C16 (SpecRound): a guess that has a rating keeps it: no step changes the
\* rating of a guess that is not Null.
C16_RatingWrittenOnce ==
    [][\A i \in 1..Len(guesses) :
            guesses[i].rating # Null
                => guesses'[i].rating = guesses[i].rating]_vars

\* Whether the target of guess i has an answer in the game of the guess.
TargetAnswered(i) ==
    FirstAnswer(guesses[i].gameId, guesses[i].targetPlayerId) # 0

\* C17 (SpecRating): a rating promise whose judge call fails or times out
\* stores 5 in its guess; one whose judge answers with a number of 1..10
\* stores that number; it changes the rating of no other guess; and a round
\* that holds a fallback rating beside a judged one reaches completed.
C17_JudgeFailuresAreLocal ==
    /\ [][\A c \in InFlight, out \in JudgeOutcomes : \A i \in c.pending :
            (StartAIRatingRateGuess(c, i, out) /\ TargetAnswered(i))
            => /\ ~out.ok => guesses'[i].rating = FallbackRating
               /\ (out.ok /\ out.value \in MinRating..MaxRating)
                      => guesses'[i].rating = out.value
               /\ \A j \in 1..Len(guesses) :
                      j # i => guesses'[j] = guesses[j]]_vars
    /\ [](((\E i \in GameGuesses(1) : guesses[i].rating = FallbackRating)
            /\ (\E j \in GameGuesses(1) : guesses[j].rating \in JudgeValues))
          => <>(games[1] = "completed"))

\* A completed round in which the judge failed for one guess and answered
\* for another.
C17_Witness ==
    /\ games[1] = "completed"
    /\ calls = EmptyBag
    /\ \E i, j \in GameGuesses(1) :
        /\ TargetAnswered(i) /\ guesses[i].rating = FallbackRating
        /\ TargetAnswered(j) /\ guesses[j].rating \in JudgeValues

C19_FreeCodeIsUsed ==
    [][\A c \in InFlight :
            (CreateSelect(c) /\ RoomWithCode(c.code) = 0)
            => /\ RoomCreationFailed \notin thrown' \ thrown
               /\ \E d \in BagToSet(calls') :
                    /\ d.op = "create" /\ d.pc = "insertRoom"
                    /\ d.code = c.code]_vars

\* C20 (SpecRooms): RoomCreationFailed is thrown only by a create call at
\* its select, which has taken no step but selects and draws; and no such
\* step, the throwing one included, changes a row of rooms or players or
\* emits a roomUpdate event.
C20_FailedCreateLeavesNothing ==
    [][/\ \A c \in InFlight :
            (CreateSelect(c) \/ \E code \in Codes : CreateSample(c, code))
            => UNCHANGED <<roomRows, playerRows, events>>
       /\ RoomCreationFailed \in thrown' \ thrown
            => \E c \in InFlight :
                /\ c.op = "create" /\ c.pc = "select"
                /\ c.attempts = MaxAttempts
                /\ calls' = Finish(c)]_vars

\* A create call has thrown RoomCreationFailed; the rows are those of the
\* one room that took the code it kept drawing.
C20_Witness ==
    /\ RoomCreationFailed \in thrown
    /\ Len(roomRows) = 1
    /\ Len(playerRows) = 1
    /\ calls = EmptyBag


\* What saveAnswer and saveGuess have stored for game g: its answer rows, and
\* its guess rows without the rating, which startAIRating writes.
SavedRows(g) ==
    <<SelectSeq(answers, LAMBDA r : r.gameId = g),
      SelectSeq([i \in 1..Len(guesses) |-> [guesses[i] EXCEPT !.rating = Null]],
                LAMBDA r : r.gameId = g)>>

\* C21 (SpecSave): no step taken while a round is in rating or completed
\* creates or changes an answer row of the round, or the stored guess of a
\* guess row of the round.
C21_NoSaveAfterAnswering ==
    [][\A g \in GameIds :
            games[g] \in {"rating", "completed"}
                => SavedRows(g)' = SavedRows(g)]_vars

\* C22 (SpecSave): a step taken while the round is in answering leaves the
\* text of every answer and of every guess of the round that is submitted
\* as it was.
C22_SubmittedTextIsLocked ==
    [][/\ \A i \in 1..Len(answers) :
            (answers[i].isSubmitted /\ games[answers[i].gameId] = "answering")
                => answers'[i].answer = answers[i].answer
       /\ \A i \in 1..Len(guesses) :
            (guesses[i].isSubmitted /\ games[guesses[i].gameId] = "answering")
                => guesses'[i].guess = guesses[i].guess]_vars

\* C23 (SpecReady): a readyForNextRound call for a round that is not
\* completed, or by someone who is no player of the room, ends at its checks
\* and leaves every flag, the room and everything else as it was; and every
\* call that is past the checks is a player's.
C23_RejectedReadyChangesNothing ==
    [][/\ \A g \in GameIds, p \in Callers :
              (ReadyForNextRoundRead(g, p)
                  /\ (games[g] # "completed" \/ p \notin Players))
              => UNCHANGED vars
       /\ \A c \in BagToSet(calls') :
              c.op = "readyForNextRound" => c.playerId \in Players]_vars

\* The room has moved to round 2, whose game is in answering, and no flag is
\* set: a readyForNextRound for game 2 is a call on a round not completed.
C23_Witness ==
    /\ room.currentRound = 2
    /\ games[2] = "answering"
    /\ \A p \in Players : ~isReady[p]
    /\ calls = EmptyBag

\* The players of room r that have isCreator = true.
Creators(r) ==
    {i \in 1..Len(playerRows) :
        playerRows[i].roomId = r /\ playerRows[i].isCreator}

\* C25 (SpecMembers): when no call is suspended, every room that exists has
\* exactly one player row with isCreator = true.
C25_ExactlyOneCreator ==
    calls = EmptyBag =>
        \A r \in 1..Len(roomRows) :
            RoomExists(r) => Cardinality(Creators(r)) = 1

\* C26 (SpecMembers): when no call is suspended, a room that exists has a
\* player who has not left: a player row that is not offline (only leave
\* sets a player offline, and a row that leave does not keep is deleted).
C26_RoomGoneWhenAllHaveLeft ==
    calls = EmptyBag =>
        \A r \in 1..Len(roomRows) :
            RoomExists(r) =>
                \E i \in 1..Len(playerRows) :
                    /\ playerRows[i].roomId = r
                    /\ playerRows[i].status # "offline"

\* C27 (SpecMembers): a kickPlayer call whose kicker is not the creator of
\* the player's room, or is the player, ends at its checks and leaves the
\* player rows as they are; and the delete of a kickPlayer call removes a
\* player only in a state where the kicker is the creator of the room and
\* the player is not.
C27_KickOnlyByCreatorNeverOfCreator ==
    [][\A c \in InFlight :
            /\ (KickRoom(c)
                    /\ ~(/\ RoomExists(c.roomId)
                         /\ roomRows[c.roomId].creatorId = c.kickerId
                         /\ c.playerId # c.kickerId))
                => (calls' = Finish(c) /\ playerRows' = playerRows)
            /\ (KickDelete(c) /\ playerRows' # playerRows)
                => /\ RoomExists(c.roomId)
                   /\ roomRows[c.roomId].creatorId = c.kickerId
                   /\ roomRows[c.roomId].creatorId # c.playerId]_vars

\* The ids of the players of room r.
PlayerIdsOf(r) ==
    {playerRows[i].id : i \in {j \in 1..Len(playerRows) :
                                  playerRows[j].roomId = r}}

\* C28 (SpecMembers): a join call with a code that no room has, or with the
\* code of a room that is not in lobby, ends at its checks and leaves the
\* player rows as they are; and no step taken while a room is playing adds
\* a player to it.
C28_NoJoinOutsideLobby ==
    [][/\ \A roomCode \in JoinCodeInputs, sid \in MemberSessions :
            (JoinRead(roomCode, sid)
                /\ LET r == RoomWithCode(ToUpperCase(roomCode))
                   IN r = 0 \/ roomRows[r].status # "lobby")
            => (calls' = calls /\ playerRows' = playerRows)
       /\ \A r \in 1..Len(roomRows) :
            (RoomExists(r) /\ roomRows[r].status = "playing")
                => PlayerIdsOf(r)' \subseteq PlayerIdsOf(r)]_vars

\* C24 (SpecFeeds): the first item a subscriber of onGameUpdate receives, and
\* the first item a subscriber of onRoomUpdate receives, is a snapshot that
\* the subscription has read itself, not the event of a later call.
C24_FirstItemIsSnapshot ==
    /\ gameFeed.first # NoItem => gameFeed.first.kind = "snapshot"
    /\ roomFeed.first # NoItem => roomFeed.first.kind = "snapshot"

\* C29 (SpecRating): in no state is a round completed while a rating
\* promise of a startAIRating run of that round has not settled.
C29_CompletedOnlyAfterAllRated ==
    \A c \in InFlight :
        (c.op = "startAIRating" /\ c.pending # {})
            => games[c.gameId] # "completed"

\* C30 (SpecReady): while two or more readyForNextRound calls are suspended,
\* the update of a call for the game of round r leaves currentRound at
\* r + 1.
C30_ConcurrentReadyAdvancesOnce ==
    [][\A c \in InFlight :
            (NumInFlight("readyForNextRound") >= 2
                /\ ReadyForNextRoundAdvance(c))
            => room'.currentRound = c.gameId + 1]_vars

\* The assignment of a round: the target getGuessTarget returns to each
\* player of the list.
Assignment(roomPlayers, round) ==
    [p \in Range(roomPlayers) |-> GetGuessTarget(roomPlayers, round, p)]

\* C31 (SpecTarget): for a room of more than two players and a round r below
\* the largest number of rounds, the assignment of round r differs from the
\* assignment of round r + 1.
C31_AssignmentDiffersNextRound ==
    (tResult.done /\ Len(tPlayers) > 2 /\ tRound < MaxTotalRounds) =>
        Assignment(tPlayers, tRound) # Assignment(tPlayers, tRound + 1)

\* C36 (SpecActivity): on the same player list of at least two players, the
\* same round number and a player of the list, the target the client
\* computes in getPlayerActivity is the target getGuessTarget returned.
C36_ClientAndServerAgree ==
    (/\ tResult.done /\ tShown.done
     /\ Len(tPlayers) >= 2 /\ tCaller \in Range(tPlayers)) =>
        tShown.id = tResult.id

\* Both have computed the target on rows that are not in the order of their
\* ids, in a round whose offset is 0.
C36_Witness ==
    /\ tResult.done /\ tShown.done
    /\ Len(tPlayers) >= 3
    /\ tPlayers[1] > tPlayers[2]
    /\ tCaller \in Range(tPlayers)
    /\ tRound % Len(tPlayers) = 0
    /\ tShown.id # Null

\* C37 (SpecTarget): in a room of at least two players the assignment of a
\* round is a bijection on the players without fixed points: every player
\* is the target of exactly one player and nobody is their own target; the
\* query of a player returns that player's entry of it.
C37_AssignmentIsDerangement ==
    (tResult.done /\ Len(tPlayers) >= 2) =>
        LET a == Assignment(tPlayers, tRound)
        IN /\ \A q \in Range(tPlayers) :
                Cardinality({p \in Range(tPlayers) : a[p] = q}) = 1
           /\ \A p \in Range(tPlayers) : a[p] # p
           /\ tCaller \in Range(tPlayers) => tResult.id = a[tCaller]

\* A room of three players in a round whose number is a multiple of three.
C37_Witness ==
    /\ tResult.done
    /\ Len(tPlayers) = 3
    /\ tRound % 3 = 0
    /\ tCaller \in Range(tPlayers)
    /\ tResult.id \in Range(tPlayers) \ {tCaller}

\* C33 (SpecFeeds): no step that keeps the rows of the answers (of the
\* guesses) sets the isSubmitted flag of one of them back from true to
\* false.  (submittedAt is written by the same statements from the same
\* values, input.submit and the row that was selected: it is null exactly
\* when the flag is false.)
C33_SubmittedFlagMonotonic ==
    [][/\ Len(answers') >= Len(answers) =>
            \A i \in 1..Len(answers) :
                answers[i].isSubmitted => answers'[i].isSubmitted
       /\ Len(guesses') >= Len(guesses) =>
            \A i \in 1..Len(guesses) :
                guesses[i].isSubmitted => guesses'[i].isSubmitted]_vars

\* C32 (SpecCollect): a step that sets a round to rating is taken in a state
\* where every player of the room has a submitted answer of the round and
\* a submitted guess of the round.
C32_RatingOnlyWhenAllSubmitted ==
    [][\A g \in Rounds :
            (games[g] # "rating" /\ games'[g] = "rating") =>
                \A p \in PlayerIdsOf(1) :
                    /\ \E i \in SubmittedAnswers(g) : answers[i].playerId = p
                    /\ \E i \in SubmittedGuesses(g) : guesses[i].guesserId = p
      ]_vars

\* C34 (SpecCollect): in a room of one player getGuessTarget returns nothing
\* and the round stays in answering, whatever the player saves and however
\* often the progress of the round is checked.
C34_OnePlayerRoundStaysInAnswering ==
    Len(RoomPlayers(1)) = 1 =>
        /\ tResult.done => tResult.id = Null
        /\ games[1] = "answering"

\* C38 (SpecCollect): the target of every guess row is the player that
\* getGuessTarget assigns to its guesser in the round of the row; no row has
\* its guesser as target, and the rows of one guesser in one round have one
\* target.
C38_StoredTargetIsAssignedTarget ==
    \A i \in 1..Len(guesses) :
        /\ guesses[i].targetPlayerId =
                GetGuessTarget(tPlayers, guesses[i].gameId,
                               guesses[i].guesserId)
        /\ guesses[i].targetPlayerId # guesses[i].guesserId
        /\ \A j \in 1..Len(guesses) :
                (guesses[j].gameId = guesses[i].gameId
                    /\ guesses[j].guesserId = guesses[i].guesserId)
                => guesses[j].targetPlayerId = guesses[i].targetPlayerId

\* C35 (SpecResults): a query of the results of a round returns one entry
\* per answer row of the round, and the isRated flag of an entry is true
\* exactly when the round has a guess about the entry's player with a
\* rating that is not null.
C35_ResultsFlagRatedGuesses ==
    [][results' # results =>
        LET gameAnswers == SelectSeq(answers, LAMBDA row : row.gameId = 1)
        IN /\ Len(results') = Len(gameAnswers)
           /\ \A k \in 1..Len(gameAnswers) :
                results'[k].isRated =
                    (\E i \in GameGuesses(1) :
                        /\ guesses[i].targetPlayerId = gameAnswers[k].playerId
                        /\ guesses[i].rating # Null)]_vars

C40_CreatorIdNamesCreatorRow ==
    calls = EmptyBag =>
        \A r \in 1..Len(roomRows) :
            RoomExists(r) =>
                \E i \in Creators(r) :
                    playerRows[i].id = roomRows[r].creatorId
==========================================================================
